---- MODULE Spec2Model ----
(***************************************************************************)
(* mango_chainsaw: the five-tree namespace (labels, labels_inverse, data,  *)
(* data_labels, data_labels_inverse) with the transactional insert and     *)
(* delete requests, the label query and get_one.                           *)
(*                                                                         *)
(* Trees are sled trees: finite maps from key bytes to value bytes.  Bytes *)
(* are sequences of numbers 0..255.  Values and most keys go through the   *)
(* flexbuffers codec (ser / de); labels_inverse is keyed by the raw text   *)
(* of the label.  A transaction body runs atomically (sled transactions    *)
(* are serializable), so each request execution is one step.               *)
(***************************************************************************)
EXTENDS Integers, Sequences, FiniteSets, TLC

VARIABLES labels, labels_inverse, data, data_labels, data_labels_inverse,
          next_id, allocated, open_trees, last,
          blobs, blobs_labels, legacy_labels,
          t_labels, t_labels_invert, t_objects, t_objects_labels,
          t_labels_objects,
          is_ok, request, query_run, race

\* the three trees of a namespace of the legacy surface (src/namespace.rs):
\* blobs, relations (blobs_labels) and labels
legacy == <<blobs, blobs_labels, legacy_labels>>

\* the five trees of a Bucket (src/bucket.rs)
bucket == <<t_labels, t_labels_invert, t_objects, t_objects_labels,
            t_labels_objects>>

\* the sled database: its monotonic counter, the ObjectIDs the counter has
\* handed out, in the order of the calls, and the names of its trees
db == <<next_id, allocated, open_trees>>

\* the handles and the work in progress: the is_ok flag of the Bucket handle,
\* the request object a caller is building, the query that is reading the
\* trees, and the two requests that run at the same time
handles == <<is_ok, request, query_run, race>>

vars == <<labels, labels_inverse, data, data_labels, data_labels_inverse,
          next_id, allocated, open_trees, last, blobs, blobs_labels, legacy_labels,
          t_labels, t_labels_invert, t_objects, t_objects_labels,
          t_labels_objects, is_ok, request, query_run, race>>

(***************************************************************************)
(* Bounds                                                                  *)
(***************************************************************************)
\* ObjectIDs a caller may supply to new_custom_id are 0..MaxCustomId
MaxCustomId == 1
\* the monotonic counter hands out 0..MaxNextId-1
MaxNextId == 2
\* labels per insert request
MaxLabels == 2
\* ObjectIDs per delete request
MaxDelete == 2

(***************************************************************************)
(* Bytes, sequences                                                        *)
(***************************************************************************)
Range(s) == {s[i] : i \in DOMAIN s}

NoDup(s) == \A i, j \in DOMAIN s : i # j => s[i] # s[j]

\* all the orders in which a HashSet holding S may be iterated
Orders(S) == {s \in [1..Cardinality(S) -> S] : NoDup(s)}

IsPrefix(p, s) == Len(p) <= Len(s) /\ SubSeq(s, 1, Len(p)) = p

\* lexicographic byte order, the order of keys in a sled tree
RECURSIVE BytesLess(_, _)
BytesLess(a, b) ==
    IF a = <<>> THEN b # <<>>
    ELSE IF b = <<>> THEN FALSE
    ELSE IF Head(a) # Head(b) THEN Head(a) < Head(b)
    ELSE BytesLess(Tail(a), Tail(b))

RECURSIVE SeqFilterOut(_, _)
SeqFilterOut(s, x) ==
    IF s = <<>> THEN <<>>
    ELSE IF Head(s) = x THEN SeqFilterOut(Tail(s), x)
    ELSE <<Head(s)>> \o SeqFilterOut(Tail(s), x)

(***************************************************************************)
(* The flexbuffers codec, at byte width 1 (all numbers of the model are    *)
(* below 256 and all buffers shorter than 256 bytes).                      *)
(***************************************************************************)
\* ser(u64): the scalar, then the root type byte (UInt, width 1) and width
SerU64(n) == <<n, 8, 1>>

DeU64(bs) == bs[1]

\* ser(Vec<u64>): length, elements, then root offset, type byte, width
SerVec(xs) == <<Len(xs)>> \o xs \o <<Len(xs), IF xs = <<>> THEN 40 ELSE 48, 1>>

DeVec(bs) == SubSeq(bs, 2, 1 + bs[1])

\* ser(Bytes): a blob: length, bytes, then root offset, type byte, width
SerBytes(b) == <<Len(b)>> \o b \o <<Len(b), 100, 1>>

DeBytes(bs) == SubSeq(bs, 2, 1 + bs[1])

\* ser(Label { data }): a map with the one key "data": the key, the string
\* (length, text, NUL), the keys vector, the map and the root
SerLabel(t) ==
    <<100, 97, 116, 97, 0>> \o <<Len(t)>> \o t \o <<0>>
      \o <<1, 8 + Len(t)>>
      \o <<1, 1, 1, 6 + Len(t), 20>>
      \o <<2, 36, 1>>

DeLabel(bs) == SubSeq(bs, 7, 6 + bs[6])

\* String::from_utf8 on bytes whose text parts are ASCII: it fails exactly
\* when a framing byte (a length or an offset) is 128 or more
Utf8Valid(bs) == \A i \in DOMAIN bs : bs[i] < 128

(***************************************************************************)
(* Labels and payloads of the model                                        *)
(***************************************************************************)
LabelA == <<97>>
LabelAB == <<97, 98>>
LabelB == <<98>>
\* a label whose text is, byte for byte, the encoding of Label "a"
LabelX == SerLabel(LabelA)

\* the labels, scan prefixes and payloads that requests are built from
CoreLabels == {LabelA, LabelX}

QueryLabels == {LabelAB, LabelB}

Prefixes == {<<>>, <<97>>, <<97, 98>>, <<98>>}

OnePayload == {<<104, 105>>}

Payloads == {<<>>, <<104, 105>>}

\* Label::id: DefaultHasher over the text; a fixed function of the text,
\* injective on the labels of the model (collisions are not modelled)
RECURSIVE HashBytes(_, _)
HashBytes(t, i) ==
    IF t = <<>> THEN 0
    ELSE (Head(t) * i + HashBytes(Tail(t), i + 1)) % 251

Label_id(t) == (HashBytes(t, 1) + Len(t)) % 251

\* InsertRequest::new: the ObjectID is the DefaultHasher hash of the payload
Payload_id(b) == (HashBytes(b, 1) + Len(b)) % 2

(***************************************************************************)
(* sled trees                                                              *)
(***************************************************************************)
EmptyTree == <<>>

Has(t, k) == k \in DOMAIN t

TreeInsert(t, k, v) == [x \in (DOMAIN t) \cup {k} |-> IF x = k THEN v ELSE t[x]]

TreeRemove(t, k) == [x \in (DOMAIN t) \ {k} |-> t[x]]

\* scan_prefix that starts at p and never stops: every key >= p
scan_prefix_NoStop(t, p) == {k \in DOMAIN t : ~BytesLess(k, p)}

\* Tree::scan_prefix: the ordered iteration over the keys of t, from the
\* smallest key >= p up to the first key that does not begin with p
RECURSIVE ScanFrom(_, _, _)
ScanFrom(keys, p, acc) ==
    IF keys = {} THEN acc
    ELSE LET k == CHOOSE x \in keys : \A y \in keys : y = x \/ BytesLess(x, y)
         IN IF IsPrefix(p, k) THEN ScanFrom(keys \ {k}, p, acc \cup {k})
            ELSE acc

scan_prefix(t, p) ==
    ScanFrom({k \in DOMAIN t : ~BytesLess(k, p)}, p, {})

(***************************************************************************)
(* The five trees of a namespace as one value, threaded through a          *)
(* transaction body                                                        *)
(***************************************************************************)
Trees(l, li, d, dl, dli) ==
    [labels |-> l, labels_inverse |-> li, data |-> d,
     data_labels |-> dl, data_labels_inverse |-> dli]

Store == Trees(labels, labels_inverse, data, data_labels, data_labels_inverse)

(***************************************************************************)
(* InsertRequest::execute                                                  *)
(***************************************************************************)
\* first loop: labels[ser(id)] <- ser(label), labels_inverse[text] <- ser(id)
RECURSIVE InsertLabels(_, _)
InsertLabels(S, ord) ==
    IF ord = <<>> THEN S
    ELSE LET t == Head(ord)
             key_bytes == SerU64(Label_id(t))
         IN InsertLabels(
              [S EXCEPT !.labels = TreeInsert(@, key_bytes, SerLabel(t)),
                        !.labels_inverse = TreeInsert(@, t, key_bytes)],
              Tail(ord))

\* UpsertOne with the push forgotten: an existing list is written back as it was
UpsertOne_NoPush(dli, lid, oid) ==
    LET label_id_bytes == SerU64(lid)
    IN IF Has(dli, label_id_bytes)
       THEN dli
       ELSE TreeInsert(dli, label_id_bytes, SerVec(<<oid>>))

\* one step of the second loop: remove the list of the label, push the
\* ObjectID and write it back, or start a new list
UpsertOne(dli, lid, oid) ==
    LET label_id_bytes == SerU64(lid)
    IN IF Has(dli, label_id_bytes)
       THEN TreeInsert(dli, label_id_bytes,
                       SerVec(Append(DeVec(dli[label_id_bytes]), oid)))
       ELSE TreeInsert(dli, label_id_bytes, SerVec(<<oid>>))

RECURSIVE UpsertAll(_, _, _)
UpsertAll(dli, label_ids, oid) ==
    IF label_ids = <<>> THEN dli
    ELSE UpsertAll(UpsertOne(dli, Head(label_ids), oid), Tail(label_ids), oid)

\* the transaction body: ord is the order in which the HashSet of the
\* request yields its labels
InsertRequest_execute(S, oid, payload, ord) ==
    LET object_id_bytes == SerU64(oid)
        S1 == [S EXCEPT !.data = TreeInsert(@, object_id_bytes, SerBytes(payload))]
        S2 == InsertLabels(S1, ord)
        label_ids == [i \in 1..Len(ord) |-> Label_id(ord[i])]
        S3 == [S2 EXCEPT !.data_labels =
                 TreeInsert(@, object_id_bytes, SerVec(label_ids))]
    IN [S3 EXCEPT !.data_labels_inverse = UpsertAll(@, label_ids, oid)]

\* the transaction body when the write at site fails with a storage error:
\* the trees as the writes before it left them, and whether it ran to the end
InsertRequest_body(S, oid, payload, ord, site) ==
    LET object_id_bytes == SerU64(oid)
        S1 == [S EXCEPT !.data = TreeInsert(@, object_id_bytes, SerBytes(payload))]
        S2 == InsertLabels(S1, ord)
        label_ids == [i \in 1..Len(ord) |-> Label_id(ord[i])]
        S3 == [S2 EXCEPT !.data_labels =
                 TreeInsert(@, object_id_bytes, SerVec(label_ids))]
    IN CASE site = "data" -> [S |-> S, ok |-> FALSE]
         [] site = "labels" /\ ord # <<>> -> [S |-> S1, ok |-> FALSE]
         [] site = "data_labels" -> [S |-> S2, ok |-> FALSE]
         [] site = "data_labels_inverse" /\ ord # <<>> -> [S |-> S3, ok |-> FALSE]
         [] OTHER -> [S |-> InsertRequest_execute(S, oid, payload, ord), ok |-> TRUE]

\* InsertRequest_try with the writes of a failed body left in the trees
InsertRequest_try_NoAbort(S, oid, payload, ord, site) ==
    InsertRequest_body(S, oid, payload, ord, site)

\* the transaction around the body: an error aborts it and nothing is written
InsertRequest_try(S, oid, payload, ord, site) ==
    LET r == InsertRequest_body(S, oid, payload, ord, site)
    IN IF r.ok THEN r ELSE [S |-> S, ok |-> FALSE]

(***************************************************************************)
(* DeleteRequest::execute.  The body returns the trees and whether it ran  *)
(* to the end; an error aborts the transaction.                            *)
(***************************************************************************)
\* the pruning of a label whose list had at most one ObjectID, as in
\* old/delete.rs: the value removed from labels is read as UTF-8 text and
\* that text is the key removed from labels_inverse
PruneLabel(S, label_id_bytes) ==
    LET found == Has(S.labels, label_id_bytes)
        bytes == IF found THEN S.labels[label_id_bytes] ELSE <<>>
        S1 == [S EXCEPT !.labels = TreeRemove(@, label_id_bytes)]
    IN IF found /\ ~Utf8Valid(bytes)
       THEN [S |-> S1, ok |-> FALSE]
       ELSE [S |-> [S1 EXCEPT !.labels_inverse = TreeRemove(@, bytes)],
             ok |-> TRUE]

\* the pruning as in src/delete.rs: labels_inverse is asked to remove the
\* serialized LabelID
PruneLabelSrc(S, label_id_bytes) ==
    [S |-> [S EXCEPT !.labels = TreeRemove(@, label_id_bytes),
                     !.labels_inverse = TreeRemove(@, label_id_bytes)],
     ok |-> TRUE]

\* the loop over the labels of one object
RECURSIVE DeleteLabels(_, _, _, _)
DeleteLabels(S, object_labels, oid, old) ==
    IF object_labels = <<>> THEN [S |-> S, ok |-> TRUE]
    ELSE LET label_id == SerU64(Head(object_labels))
         IN IF ~Has(S.data_labels_inverse, label_id)
            THEN DeleteLabels(S, Tail(object_labels), oid, old)
            ELSE LET object_ids == DeVec(S.data_labels_inverse[label_id])
                     S1 == [S EXCEPT !.data_labels_inverse = TreeRemove(@, label_id)]
                 IN IF Len(object_ids) = 1 \/ object_ids = <<>>
                    THEN LET r == IF old THEN PruneLabel(S1, label_id)
                                  ELSE PruneLabelSrc(S1, label_id)
                         IN IF r.ok
                            THEN DeleteLabels(r.S, Tail(object_labels), oid, old)
                            ELSE r
                    ELSE DeleteLabels(
                           [S1 EXCEPT !.data_labels_inverse =
                              TreeInsert(@, label_id,
                                         SerVec(SeqFilterOut(object_ids, oid)))],
                           Tail(object_labels), oid, old)

\* RemoveObject with the removal from data forgotten
RemoveObject_KeepData(S, id) == [S EXCEPT !.data_labels = TreeRemove(@, id)]

\* tx_data.remove(id) and tx_data_labels.remove(id)
RemoveObject(S, id) ==
    [S EXCEPT !.data = TreeRemove(@, id), !.data_labels = TreeRemove(@, id)]

\* the loop over the objects of the request, in the order the HashSet
\* yields them
RECURSIVE DeleteObjects(_, _, _)
DeleteObjects(S, ord, old) ==
    IF ord = <<>> THEN [S |-> S, ok |-> TRUE]
    ELSE LET oid == Head(ord)
             id == SerU64(oid)
             object_labels == IF Has(S.data_labels, id)
                              THEN DeVec(S.data_labels[id]) ELSE <<>>
             S1 == RemoveObject(S, id)
             r == DeleteLabels(S1, object_labels, oid, old)
         IN IF r.ok THEN DeleteObjects(r.S, Tail(ord), old) ELSE r

\* old/delete.rs
DeleteRequest_execute(S, ord) ==
    LET r == DeleteObjects(S, ord, TRUE)
    IN IF r.ok THEN r ELSE [S |-> S, ok |-> FALSE]

\* src/delete.rs
DeleteRequest_execute_src(S, ord) ==
    LET r == DeleteObjects(S, ord, FALSE)
    IN IF r.ok THEN r ELSE [S |-> S, ok |-> FALSE]

(***************************************************************************)
(* QueryRequest::execute (old/query.rs) and Namespace::get_one             *)
(***************************************************************************)
\* the prefix loop: every key of labels_inverse a scan yields becomes an
\* include label
RECURSIVE ExpandPrefixes(_, _, _)
ExpandPrefixes(li, prefixes, all_includes) ==
    IF prefixes = {} THEN all_includes
    ELSE LET p == CHOOSE x \in prefixes : TRUE
         IN ExpandPrefixes(li, prefixes \ {p}, all_includes \cup scan_prefix(li, p))

\* CollectObjects where a label without a list ends the loop with nothing
RECURSIVE CollectObjects_MissingEmpties(_, _, _)
CollectObjects_MissingEmpties(dli, labelset, acc) ==
    IF labelset = {} THEN acc
    ELSE LET l == CHOOSE x \in labelset : TRUE
             key == SerU64(Label_id(l))
         IN IF Has(dli, key)
            THEN CollectObjects_MissingEmpties(dli, labelset \ {l},
                                               acc \cup Range(DeVec(dli[key])))
            ELSE {}

\* the include loop and the exclude loop: the ObjectIDs of the lists of
\* the given labels, collected in a HashSet
RECURSIVE CollectObjects(_, _, _)
CollectObjects(dli, labelset, acc) ==
    IF labelset = {} THEN acc
    ELSE LET l == CHOOSE x \in labelset : TRUE
             key == SerU64(Label_id(l))
         IN CollectObjects(dli, labelset \ {l},
              IF Has(dli, key) THEN acc \cup Range(DeVec(dli[key])) ELSE acc)

\* QueryRequest::execute with the exclude filter left out
QueryRequest_execute_NoExclude(S, includes, excludes, include_prefixes) ==
    CollectObjects(S.data_labels_inverse,
                   ExpandPrefixes(S.labels_inverse, include_prefixes, includes), {})

\* the set of ObjectIDs the query returns; the Vec it returns holds them in
\* the iteration order of the HashSet
QueryRequest_execute(S, includes, excludes, include_prefixes) ==
    LET all_includes == ExpandPrefixes(S.labels_inverse, include_prefixes, includes)
        include_object_ids == CollectObjects(S.data_labels_inverse, all_includes, {})
        exclude_label_ids == CollectObjects(S.data_labels_inverse, excludes, {})
    IN {id \in include_object_ids : id \notin exclude_label_ids}

\* the label loop of get_one: labels without an entry are skipped
RECURSIVE GetLabels(_, _)
GetLabels(l, labelids) ==
    IF labelids = <<>> THEN <<>>
    ELSE LET key == SerU64(Head(labelids))
         IN IF Has(l, key)
            THEN <<DeLabel(l[key])>> \o GetLabels(l, Tail(labelids))
            ELSE GetLabels(l, Tail(labelids))

\* get_one returns the value bytes of the data tree as they are stored
Namespace_get_one(S, oid) ==
    LET kb == SerU64(oid)
    IN IF ~Has(S.data, kb)
       THEN [id |-> oid, found |-> FALSE, labels |-> <<>>, bytes |-> <<>>]
       ELSE [id |-> oid, found |-> TRUE,
             labels |-> GetLabels(S.labels,
                          IF Has(S.data_labels, kb)
                          THEN DeVec(S.data_labels[kb]) ELSE <<>>),
             bytes |-> S.data[kb]]

(***************************************************************************)
(* The legacy namespace (src/namespace.rs): three trees, bincode keys and  *)
(* values, no transactions.  bincode writes a u64 as 8 little-endian bytes *)
(* and a string or a Vec as its u64 length followed by its elements.       *)
(***************************************************************************)
BincodeU64(n) == <<n, 0, 0, 0, 0, 0, 0, 0>>

BincodeStr(s) == BincodeU64(Len(s)) \o s

RECURSIVE BincodeU64s(_)
BincodeU64s(xs) ==
    IF xs = <<>> THEN <<>> ELSE BincodeU64(Head(xs)) \o BincodeU64s(Tail(xs))

BincodeVecU64(xs) == BincodeU64(Len(xs)) \o BincodeU64s(xs)

DeBincodeVecU64(bs) == [i \in 1..bs[1] |-> bs[8 * i + 1]]

RECURSIVE BincodeStrs(_)
BincodeStrs(ss) ==
    IF ss = <<>> THEN <<>> ELSE BincodeStr(Head(ss)) \o BincodeStrs(Tail(ss))

BincodeVecStr(ss) == BincodeU64(Len(ss)) \o BincodeStrs(ss)

\* n strings read off the front of bs
RECURSIVE DeBincodeStrs(_, _)
DeBincodeStrs(bs, n) ==
    IF n = 0 THEN <<>>
    ELSE <<SubSeq(bs, 9, 8 + bs[1])>>
           \o DeBincodeStrs(SubSeq(bs, 9 + bs[1], Len(bs)), n - 1)

DeBincodeVecStr(bs) == DeBincodeStrs(SubSeq(bs, 9, Len(bs)), bs[1])

\* format!("{id}"): the decimal digits of the id (ids of the model are
\* below 10)
FormatId(id) == <<48 + id>>

\* the key of a blob in blobs and of its relation in blobs_labels, as
\* insert, get, delete_blob and insert_blobs_labels build it
BlobKey(id) == BincodeStr(FormatId(id))

\* Label::key of the legacy label: the key of the label in the labels tree
Label_key(t) == BincodeStr(t)

\* ids.sort()
RECURSIVE SortInsert(_, _)
SortInsert(sorted, x) ==
    IF sorted = <<>> THEN <<x>>
    ELSE IF x <= Head(sorted) THEN <<x>> \o sorted
    ELSE <<Head(sorted)>> \o SortInsert(Tail(sorted), x)

RECURSIVE SortIds(_)
SortIds(xs) ==
    IF xs = <<>> THEN <<>> ELSE SortInsert(SortIds(Tail(xs)), Head(xs))

\* Vec::from_iter over a HashSet followed by sort()
RECURSIVE SortSet(_)
SortSet(S) ==
    IF S = {} THEN <<>>
    ELSE LET m == CHOOSE x \in S : \A y \in S : x <= y
         IN <<m>> \o SortSet(S \ {m})

LegacyTrees(b, bl, l) == [blobs |-> b, blobs_labels |-> bl, labels |-> l]

LegacyStore == LegacyTrees(blobs, blobs_labels, legacy_labels)

\* upsert_label: update_and_fetch on labels[label.key()]; a value of None
\* removes the key
upsert_label(lt, t, id) ==
    LET key == Label_key(t)
    IN IF Has(lt, key)
       THEN LET ids == DeBincodeVecU64(lt[key])
            IN IF ids # <<>>
               THEN TreeInsert(lt, key,
                      BincodeVecU64(SortIds(
                        IF id \in Range(ids) THEN SeqFilterOut(ids, id)
                        ELSE Append(ids, id))))
               ELSE TreeRemove(lt, key)
       ELSE TreeInsert(lt, key, BincodeVecU64(<<id>>))

RECURSIVE UpsertLabels(_, _, _)
UpsertLabels(lt, ls, id) ==
    IF ls = <<>> THEN lt
    ELSE UpsertLabels(upsert_label(lt, Head(ls), id), Tail(ls), id)

\* insert_blobs_labels: relations[BlobKey(id)] <- the label texts
insert_blobs_labels(bl, id, ls) == TreeInsert(bl, BlobKey(id), BincodeVecStr(ls))

\* Namespace::insert with the id the counter of the database handed out
Namespace_insert(N, id, blob, ls) ==
    [blobs |-> TreeInsert(N.blobs, BlobKey(id), blob),
     labels |-> UpsertLabels(N.labels, ls, id),
     blobs_labels |-> insert_blobs_labels(N.blobs_labels, id, ls)]

\* Namespace::get
Namespace_get(N, id) ==
    IF Has(N.blobs, BlobKey(id))
    THEN [found |-> TRUE, bytes |-> N.blobs[BlobKey(id)]]
    ELSE [found |-> FALSE, bytes |-> <<>>]

\* the ids listed under one label of a query
QuerySet(lt, t) ==
    IF Has(lt, Label_key(t)) THEN Range(DeBincodeVecU64(lt[Label_key(t)])) ELSE {}

\* Namespace::query: the intersection of the sets of the labels, sorted;
\* sets.split_at_mut(1) panics when there is no set at all
Namespace_query(N, ls) ==
    IF ls = <<>> THEN [panicked |-> TRUE, results |-> <<>>]
    ELSE [panicked |-> FALSE,
          results |-> SortSet({id \in QuerySet(N.labels, ls[1]) :
                                 \A i \in DOMAIN ls : id \in QuerySet(N.labels, ls[i])})]

\* one label of cleanup: drop the id from the list of the label, remove an
\* empty list
CleanupLabel(lt, t, id) ==
    LET key == BincodeStr(t)
    IN IF ~Has(lt, key) THEN lt
       ELSE LET ids == SortIds(SeqFilterOut(DeBincodeVecU64(lt[key]), id))
            IN IF ids = <<>> THEN TreeRemove(lt, key)
               ELSE TreeInsert(lt, key, BincodeVecU64(ids))

RECURSIVE CleanupLabels(_, _, _)
CleanupLabels(lt, ls, id) ==
    IF ls = <<>> THEN lt
    ELSE CleanupLabels(CleanupLabel(lt, Head(ls), id), Tail(ls), id)

\* Namespace::cleanup: the relation is looked up under bincode(id), the u64
Namespace_cleanup(N, id) ==
    LET key == BincodeU64(id)
        ls == IF Has(N.blobs_labels, key)
              THEN DeBincodeVecStr(N.blobs_labels[key]) ELSE <<>>
    IN [N EXCEPT !.labels = CleanupLabels(@, ls, id)]

\* Namespace::delete_blob
Namespace_delete_blob(N, id) ==
    Namespace_cleanup([N EXCEPT !.blobs = TreeRemove(@, BlobKey(id))], id)

(***************************************************************************)
(* The Bucket and its requests (src/bucket.rs, src/label.rs,               *)
(* src/query/*.rs).  A Label is a pair <<lhs, rhs>>.                       *)
(***************************************************************************)
SEPARATOR == <<31>>

to_string_ltr(l) == l[1] \o SEPARATOR \o l[2]

to_string_rtl(l) == l[2] \o SEPARATOR \o l[1]

\* the pieces of s between separators, as str::split yields them
RECURSIVE Split(_, _)
Split(s, piece) ==
    IF s = <<>> THEN <<piece>>
    ELSE IF <<Head(s)>> = SEPARATOR THEN <<piece>> \o Split(Tail(s), <<>>)
    ELSE Split(Tail(s), Append(piece, Head(s)))

\* Label::try_from(String): the first two pieces, an error when there is
\* no separator
Label_try_from(str) ==
    LET pieces == Split(str, <<>>)
    IN IF Len(pieces) >= 2
       THEN [ok |-> TRUE, label |-> <<pieces[1], pieces[2]>>]
       ELSE [ok |-> FALSE, label |-> <<>>]

\* transaction_ser(String): length, text, NUL, then root offset, type byte
\* (String, width 1) and width
SerStr(str) == <<Len(str)>> \o str \o <<0>> \o <<Len(str) + 1, 20, 1>>

\* the strings of a vector, each as length, text, NUL
RECURSIVE SerStrData(_)
SerStrData(ss) ==
    IF ss = <<>> THEN <<>>
    ELSE <<Len(Head(ss))>> \o Head(ss) \o <<0>> \o SerStrData(Tail(ss))

\* transaction_ser(Vec<String>) and transaction_ser(Label) (a tuple struct
\* of two strings): the strings, the element count, the root
SerStrs(ss) == SerStrData(ss) \o <<Len(ss), 40, 1>>

RECURSIVE DeStrData(_, _)
DeStrData(bs, n) ==
    IF n = 0 THEN <<>>
    ELSE <<SubSeq(bs, 2, 1 + bs[1])>>
           \o DeStrData(SubSeq(bs, 3 + bs[1], Len(bs)), n - 1)

DeStrs(bs) == DeStrData(bs, bs[Len(bs) - 2])

ser_label(l) == SerStr(to_string_ltr(l))

ser_label_invert(l) == SerStr(to_string_rtl(l))

BucketTrees(l, il, o, ol, lo) ==
    [t_labels |-> l, t_labels_invert |-> il, t_objects |-> o,
     t_objects_labels |-> ol, t_labels_objects |-> lo]

BucketStore ==
    BucketTrees(t_labels, t_labels_invert, t_objects, t_objects_labels,
                t_labels_objects)

\* InsertRequest::execute, the body of the loop over the labels: lbl,
\* lbl_invert, and the upsert of the ObjectID into lbl_obj
TInsertLabel(B, l, object_id) ==
    LET key_bytes == ser_label(l)
        objects == IF Has(B.t_labels_objects, key_bytes)
                   THEN Append(DeVec(B.t_labels_objects[key_bytes]), object_id)
                   ELSE <<object_id>>
    IN [B EXCEPT !.t_labels = TreeInsert(@, key_bytes, SerStrs(l)),
                 !.t_labels_invert = TreeInsert(@, ser_label_invert(l), SerStrs(l)),
                 !.t_labels_objects = TreeInsert(@, key_bytes, SerVec(objects))]

RECURSIVE TInsertLabels(_, _, _)
TInsertLabels(B, ls, object_id) ==
    IF ls = <<>> THEN B
    ELSE TInsertLabels(TInsertLabel(B, Head(ls), object_id), Tail(ls), object_id)

\* InsertRequest::execute (src/query/insert.rs)
TInsertRequest_execute(B, object_id, object, ls) ==
    LET B1 == [B EXCEPT !.t_objects = TreeInsert(@, SerU64(object_id), SerBytes(object))]
        B2 == TInsertLabels(B1, ls, object_id)
        label_ids == [i \in 1..Len(ls) |-> to_string_ltr(ls[i])]
    IN [B2 EXCEPT !.t_objects_labels =
          TreeInsert(@, SerU64(object_id), SerStrs(label_ids))]

\* DeleteRequest::execute (src/query/delete.rs), one label of one object.
\* site names the tree operation that fails with a storage error, if any.
TDeleteLabel(B, str, id, prune, site) ==
    LET parsed == Label_try_from(str)
        key_bytes == ser_label(parsed.label)
    IN IF ~parsed.ok \/ site = "lbl_obj" THEN [B |-> B, ok |-> FALSE]
       ELSE IF ~Has(B.t_labels_objects, key_bytes) THEN [B |-> B, ok |-> TRUE]
       ELSE LET new == SeqFilterOut(DeVec(B.t_labels_objects[key_bytes]), id)
                B1 == [B EXCEPT !.t_labels_objects = TreeRemove(@, key_bytes)]
            IN IF site = "lbl" THEN [B |-> B1, ok |-> FALSE]
               ELSE IF new = <<>> /\ prune
               THEN [B |-> [B1 EXCEPT !.t_labels = TreeRemove(@, key_bytes),
                                      !.t_labels_invert = TreeRemove(@, key_bytes)],
                     ok |-> TRUE]
               ELSE [B |-> [B1 EXCEPT !.t_labels =
                                        TreeInsert(@, key_bytes, SerVec(new))],
                     ok |-> TRUE]

\* the loop over the labels of one object; r is the Bucket so far and
\* whether every step so far returned Ok
RECURSIVE TDeleteLabels(_, _, _, _, _)
TDeleteLabels(r, strs, id, prune, site) ==
    IF strs = <<>> \/ ~r.ok THEN r
    ELSE TDeleteLabels(TDeleteLabel(r.B, Head(strs), id, prune, site),
                       Tail(strs), id, prune, site)

\* results.push((id, true)) after the labels of id
PushId(r, id) == [B |-> r.B, ok |-> r.ok, out |-> IF r.ok THEN <<id>> ELSE <<>>]

\* obj.remove(key) and obj_lbl.remove(key)
TRemoveObject(B, key_bytes) ==
    [B EXCEPT !.t_objects = TreeRemove(@, key_bytes),
              !.t_objects_labels = TreeRemove(@, key_bytes)]

\* the labels obj_lbl holds for the object
TLabelsOf(B, key_bytes) ==
    IF Has(B.t_objects_labels, key_bytes)
    THEN DeStrs(B.t_objects_labels[key_bytes]) ELSE <<>>

\* TDeleteOne where an object that is not there is an error
TDeleteOne_UnknownFails(B, id, prune, site) ==
    IF ~(site # "obj" /\ Has(B.t_objects, SerU64(id)))
    THEN [B |-> B, ok |-> FALSE, out |-> <<>>]
    ELSE IF site = "obj_lbl"
    THEN [B |-> [B EXCEPT !.t_objects = TreeRemove(@, SerU64(id))],
          ok |-> FALSE, out |-> <<>>]
    ELSE PushId(TDeleteLabels([B |-> TRemoveObject(B, SerU64(id)), ok |-> TRUE],
                              TLabelsOf(B, SerU64(id)), id, prune, site), id)

\* one object of the request: an error of obj.remove is logged and the
\* object is skipped like one that is not there
TDeleteOne(B, id, prune, site) ==
    IF ~(site # "obj" /\ Has(B.t_objects, SerU64(id)))
    THEN [B |-> B, ok |-> TRUE, out |-> <<>>]
    ELSE IF site = "obj_lbl"
    THEN [B |-> [B EXCEPT !.t_objects = TreeRemove(@, SerU64(id))],
          ok |-> FALSE, out |-> <<>>]
    ELSE PushId(TDeleteLabels([B |-> TRemoveObject(B, SerU64(id)), ok |-> TRUE],
                              TLabelsOf(B, SerU64(id)), id, prune, site), id)

\* the ids removed so far and those of one more object
PushOut(acc, r) ==
    [B |-> r.B, ok |-> r.ok, out |-> IF r.ok THEN acc.out \o r.out ELSE <<>>]

\* the loop over the ids of the request; acc is the Bucket so far, whether
\* every step so far returned Ok, and the ids removed; the fault is at the
\* object fault.id, at the tree operation fault.site
RECURSIVE TDeleteRequest_execute(_, _, _, _)
TDeleteRequest_execute(acc, ids, prune, fault) ==
    IF ids = <<>> \/ ~acc.ok THEN acc
    ELSE TDeleteRequest_execute(
           PushOut(acc, TDeleteOne(acc.B, Head(ids), prune,
                                   IF fault.id = Head(ids) THEN fault.site ELSE "none")),
           Tail(ids), prune, fault)

\* Request::execute: an insert propagates the error of any of its writes
Request_execute(B, req, fault) ==
    IF req.type = "insert"
    THEN IF fault.site = "insert" THEN [B |-> B, ok |-> FALSE, out |-> <<>>]
         ELSE [B |-> TInsertRequest_execute(B, req.id, req.object, req.labels),
               ok |-> TRUE, out |-> <<req.id>>]
    ELSE TDeleteRequest_execute([B |-> B, ok |-> TRUE, out |-> <<>>],
                                req.ids, TRUE, fault)

NoFault == [req |-> 0, id |-> 0, site |-> "none"]

\* results.push(res)
PushResult(acc, r) ==
    [B |-> r.B, ok |-> r.ok,
     results |-> IF r.ok THEN Append(acc.results, r.out) ELSE <<>>]

\* the body of the transaction: the requests in order, from request n on;
\* acc is the Bucket so far, whether every request so far returned Ok, and
\* the results
RECURSIVE RunRequests(_, _, _, _)
RunRequests(acc, reqs, n, fault) ==
    IF n > Len(reqs) \/ ~acc.ok THEN acc
    ELSE RunRequests(
           PushResult(acc, Request_execute(acc.B, reqs[n],
                                           IF fault.req = n THEN fault ELSE NoFault)),
           reqs, n + 1, fault)

\* the end of the transaction: an error aborts it and nothing is written
Commit(B, r) == IF r.ok THEN r ELSE [B |-> B, ok |-> FALSE, results |-> <<>>]

\* Transaction_execute with the writes of a failed body left in the trees
Transaction_execute_NoAbort(B, reqs, fault) ==
    RunRequests([B |-> B, ok |-> TRUE, results |-> <<>>], reqs, 1, fault)

\* Transaction::execute: an error of the body aborts the transaction and
\* nothing is written
Transaction_execute(B, reqs, fault) ==
    Commit(B, RunRequests([B |-> B, ok |-> TRUE, results |-> <<>>], reqs, 1, fault))

(***************************************************************************)
(* The state machine                                                       *)
(***************************************************************************)
\* the longest list a label holds in the model
MaxList == 2

ObjectIds == 0..MaxCustomId

LabelSets(texts) == {L \in SUBSET texts : Cardinality(L) <= MaxLabels}

\* no request object is in the caller's hands
NoRequest ==
    [kind |-> "none", executed |-> FALSE, id |-> 0, payload |-> <<>>, labels |-> {},
     include_labels |-> {}, include_prefix |-> {}, exclude_labels |-> {},
     objects |-> {}]

Init ==
    /\ labels = EmptyTree
    /\ labels_inverse = EmptyTree
    /\ data = EmptyTree
    /\ data_labels = EmptyTree
    /\ data_labels_inverse = EmptyTree
    /\ next_id = 0
    /\ allocated = <<>>
    /\ open_trees = {}
    /\ last = [op |-> "open"]
    /\ blobs = EmptyTree
    /\ blobs_labels = EmptyTree
    /\ legacy_labels = EmptyTree
    /\ t_labels = EmptyTree
    /\ t_labels_invert = EmptyTree
    /\ t_objects = EmptyTree
    /\ t_objects_labels = EmptyTree
    /\ t_labels_objects = EmptyTree
    /\ is_ok = TRUE
    /\ request = NoRequest
    /\ query_run = [pc |-> "idle"]
    /\ race = [pending |-> {}]

\* the names open_namespace refuses
Reserved == {"ext", "namespace", "namespaces"}

\* format!("{name}{SEPARATOR}{tree}"): the name of a tree of a namespace
TreeNames(name, kinds) == {<<name, tree>> : tree \in kinds}

\* Namespace::open_from_db (old/namespace.rs): db.open_tree of the five trees
Namespace_open_from_db(T, name) ==
    T \cup TreeNames(name, {"labels", "labels_inverse", "data", "data_labels",
                            "data_labels_inverse"})

\* Namespace::new (src/namespace.rs): db.inner.open_tree of the three trees
Namespace_new(T, name) ==
    T \cup TreeNames(name, {"blobs", "labels", "relations"})

\* Db::open_namespace (old/db.rs)
Db_open_namespace(T, name) ==
    [trees |-> Namespace_open_from_db(T, name), ok |-> TRUE, error |-> "none"]

\* DB::open_namespace (src/db.rs)
DB_open_namespace(T, name) ==
    [trees |-> Namespace_new(T, name), ok |-> TRUE, error |-> "none"]

\* DB::open_namespace (src/___/db.rs), which filters the reserved words
DB_open_namespace_filtered(T, name) ==
    IF name \in Reserved
    THEN [trees |-> T, ok |-> FALSE, error |-> "BadNamespaceName"]
    ELSE [trees |-> Namespace_new(T, name), ok |-> TRUE, error |-> "none"]

\* the namespace whose five trees the model holds, and the name of the Bucket
Files == "files"

Testing == "testing"

\* Bucket::open: db.open_tree of the five trees of the Bucket
Bucket_open(T, name) ==
    T \cup TreeNames(name, {"labels", "ilabels", "objects", "objectlabels",
                            "objectilabels"})

\* the sled database: the names of its trees, and what the trees the model
\* holds contain
SledDb(names, l, li, d, dl, dli, B) ==
    [names |-> names,
     contents |->
        (<<Files, "labels">> :> l) @@ (<<Files, "labels_inverse">> :> li)
        @@ (<<Files, "data">> :> d) @@ (<<Files, "data_labels">> :> dl)
        @@ (<<Files, "data_labels_inverse">> :> dli)
        @@ (<<Testing, "labels">> :> B.t_labels)
        @@ (<<Testing, "ilabels">> :> B.t_labels_invert)
        @@ (<<Testing, "objects">> :> B.t_objects)
        @@ (<<Testing, "objectlabels">> :> B.t_objects_labels)
        @@ (<<Testing, "objectilabels">> :> B.t_labels_objects)]

Sled ==
    SledDb(open_trees, labels, labels_inverse, data, data_labels,
           data_labels_inverse, BucketStore)

\* sled::Db::drop_tree: the tree is no longer in the database and what it
\* held is gone
drop_tree(D, n) ==
    [names |-> D.names \ {n},
     contents |-> [m \in DOMAIN D.contents |->
                     IF m = n THEN EmptyTree ELSE D.contents[m]]]

\* drop_tree of format!("{name}{sep}{tree}") for the trees of the list
RECURSIVE DropAll(_, _, _)
DropAll(D, name, kinds) ==
    IF kinds = <<>> THEN D
    ELSE DropAll(drop_tree(D, <<name, Head(kinds)>>), name, Tail(kinds))

\* Db_drop_namespace with data_labels_inverse left out of the list
Db_drop_namespace_FourTrees(D, name) ==
    DropAll(D, name, <<"labels", "labels_inverse", "data", "data_labels">>)

\* Db::drop_namespace (old/db.rs)
Db_drop_namespace(D, name) ==
    DropAll(D, name, <<"labels", "labels_inverse", "data", "data_labels",
                       "data_labels_inverse">>)

\* Bucket::drop, the five drop_tree calls
Bucket_drop(D, name) ==
    DropAll(D, name, <<"labels", "ilabels", "objects", "objectlabels",
                       "objectilabels">>)

\* generate_id with a counter that stays where it is
generate_id_Stuck(n) == n

\* sled::Db::generate_id: the counter after it handed out n
generate_id(n) == n + 1

\* Db::next_id: the ObjectID handed out is the value of the counter; max
\* bounds the counter in the model
Db_next_id(max) ==
    /\ next_id < max
    /\ next_id' = generate_id(next_id)
    /\ allocated' = Append(allocated, next_id)
    /\ UNCHANGED open_trees

SetStore(S) ==
    /\ labels' = S.labels
    /\ labels_inverse' = S.labels_inverse
    /\ data' = S.data
    /\ data_labels' = S.data_labels
    /\ data_labels_inverse' = S.data_labels_inverse

ListsBounded(S) ==
    \A k \in DOMAIN S.data_labels_inverse :
        Len(DeVec(S.data_labels_inverse[k])) <= MaxList

\* build an InsertRequest with the given id and labels and execute it
DoInsert(oid, payload, L) ==
    \E ord \in Orders(L) :
        LET S == InsertRequest_execute(Store, oid, payload, ord)
        IN /\ ListsBounded(S)
           /\ SetStore(S)
           /\ last' = [op |-> "insert", id |-> oid, payload |-> payload,
                       labels |-> L]
           /\ UNCHANGED <<legacy, bucket, handles>>

\* the writes of InsertRequest::execute that can fail
InsertSites == {"data", "labels", "data_labels", "data_labels_inverse"}

\* InsertRequest::new(payload), add_label ..., execute, where a write fails
InsertFault(payloads, texts) ==
    \E payload \in payloads, L \in LabelSets(texts), site \in InsertSites :
        \E ord \in Orders(L) :
            LET r == InsertRequest_try(Store, Payload_id(payload), payload, ord, site)
            IN /\ ~r.ok
               /\ SetStore(r.S)
               /\ last' = [op |-> "insert_error", id |-> Payload_id(payload),
                           payload |-> payload, labels |-> L, site |-> site]
               /\ UNCHANGED <<db, legacy, bucket, handles>>

\* InsertRequest::new(payload), add_label ..., execute
InsertNew(payloads, texts) ==
    \E payload \in payloads, L \in LabelSets(texts) :
        /\ DoInsert(Payload_id(payload), payload, L)
        /\ UNCHANGED db

\* InsertRequest::new_custom_id(id, payload), add_label ..., execute
InsertCustomId(payloads, texts) ==
    \E oid \in ObjectIds, payload \in payloads, L \in LabelSets(texts) :
        /\ DoInsert(oid, payload, L)
        /\ UNCHANGED db

\* InsertRequest::new_using_db(db, payload), add_label ..., execute
InsertUsingDb(payloads, texts) ==
    \E payload \in payloads, L \in LabelSets(texts) :
        /\ Db_next_id(MaxNextId)
        /\ DoInsert(next_id, payload, L)

DeleteSets == {D \in SUBSET ObjectIds : D # {} /\ Cardinality(D) <= MaxDelete}

\* DeleteRequest::new, add_object ..., execute (old/delete.rs)
Delete ==
    \E D \in DeleteSets : \E ord \in Orders(D) :
        LET r == DeleteRequest_execute(Store, ord)
        IN /\ SetStore(r.S)
           /\ last' = [op |-> "delete", ids |-> D, ok |-> r.ok]
           /\ UNCHANGED <<db, legacy, bucket, handles>>

\* DeleteRequest::new, add_object ..., execute (src/delete.rs)
DeleteSrc ==
    \E D \in DeleteSets : \E ord \in Orders(D) :
        LET r == DeleteRequest_execute_src(Store, ord)
        IN /\ SetStore(r.S)
           /\ last' = [op |-> "delete", ids |-> D, ok |-> r.ok]
           /\ UNCHANGED <<db, legacy, bucket, handles>>

\* Namespace::get_one
GetOne ==
    \E oid \in ObjectIds :
        /\ last' = [op |-> "get", id |-> oid, res |-> Namespace_get_one(Store, oid)]
        /\ UNCHANGED <<labels, labels_inverse, data, data_labels,
                       data_labels_inverse, db, legacy, bucket, handles>>

\* QueryRequest::new, include / exclude / include_prefix ..., execute; the
\* Vec returned lists the result set in some order
Query(texts, prefixes) ==
    \E inc \in LabelSets(texts), exc \in LabelSets(texts),
       pre \in {P \in SUBSET prefixes : Cardinality(P) <= 1} :
        LET res == QueryRequest_execute(Store, inc, exc, pre)
        IN \E ord \in Orders(res) :
            /\ last' = [op |-> "query", include |-> inc, exclude |-> exc,
                        include_prefix |-> pre,
                        all_includes |-> ExpandPrefixes(labels_inverse, pre, inc),
                        results |-> ord]
            /\ UNCHANGED <<labels, labels_inverse, data, data_labels,
                           data_labels_inverse, db, legacy, bucket, handles>>

\* the label lists of a legacy request: a Vec, so with repetitions
LabelLists(texts) == UNION {[1..n -> texts] : n \in 0..MaxLabels}

SetLegacy(N) ==
    /\ blobs' = N.blobs
    /\ blobs_labels' = N.blobs_labels
    /\ legacy_labels' = N.labels

\* Namespace::insert (legacy): the id comes from the counter of the database
LegacyInsert(payloads, texts) ==
    \E blob \in payloads, ls \in LabelLists(texts) :
        /\ Db_next_id(MaxNextId)
        /\ SetLegacy(Namespace_insert(LegacyStore, next_id, blob, ls))
        /\ last' = [op |-> "legacy_insert", id |-> next_id, payload |-> blob,
                    labels |-> ls]
        /\ UNCHANGED <<labels, labels_inverse, data, data_labels,
                       data_labels_inverse, bucket, handles>>

\* Namespace::get (legacy)
LegacyGet ==
    \E id \in ObjectIds :
        /\ last' = [op |-> "legacy_get", id |-> id,
                    res |-> Namespace_get(LegacyStore, id)]
        /\ UNCHANGED <<labels, labels_inverse, data, data_labels,
                       data_labels_inverse, db, legacy, bucket, handles>>

\* Namespace::query (legacy)
LegacyQuery(texts) ==
    \E ls \in LabelLists(texts) :
        LET r == Namespace_query(LegacyStore, ls)
        IN /\ last' = [op |-> "legacy_query", labels |-> ls,
                       panicked |-> r.panicked, results |-> r.results]
           /\ UNCHANGED <<labels, labels_inverse, data, data_labels,
                          data_labels_inverse, db, legacy, bucket, handles>>

\* Namespace::delete_blob (legacy)
LegacyDelete ==
    \E id \in ObjectIds :
        /\ SetLegacy(Namespace_delete_blob(LegacyStore, id))
        /\ last' = [op |-> "legacy_delete", ids |-> {id}, ok |-> TRUE]
        /\ UNCHANGED <<labels, labels_inverse, data, data_labels,
                       data_labels_inverse, db, bucket, handles>>

\* the labels of the Bucket in the model
TLabelA == <<<<107>>, <<97>>>>

\* the requests of a transaction
InsertRequests(payloads, lists) ==
    {[type |-> "insert", id |-> id, object |-> o, labels |-> ls] :
        id \in ObjectIds, o \in payloads, ls \in lists}

DeleteRequests ==
    {[type |-> "delete", ids |-> ids] : ids \in UNION {Orders(D) : D \in DeleteSets}}

\* the places where request n can meet a storage error
FaultsOf(req, n) ==
    IF req.type = "insert"
    THEN {[req |-> n, id |-> req.id, site |-> "insert"]}
    ELSE {[req |-> n, id |-> id, site |-> site] :
            id \in Range(req.ids), site \in {"obj", "obj_lbl", "lbl_obj", "lbl"}}

\* transactions of one request, or of an insert and one more request, where
\* the last request may meet a storage error
Transactions(inserts, requests) ==
    UNION {{[reqs |-> <<r>>, fault |-> f] : f \in {NoFault} \cup FaultsOf(r, 1)} :
              r \in requests}
    \cup
    UNION {{[reqs |-> <<i, r>>, fault |-> f] : f \in {NoFault} \cup FaultsOf(r, 2)} :
              i \in inserts, r \in requests}

SetBucket(B) ==
    /\ t_labels' = B.t_labels
    /\ t_labels_invert' = B.t_labels_invert
    /\ t_objects' = B.t_objects
    /\ t_objects_labels' = B.t_objects_labels
    /\ t_labels_objects' = B.t_labels_objects

TListsBounded(B) ==
    \A k \in DOMAIN B.t_labels_objects :
        Len(DeVec(B.t_labels_objects[k])) <= MaxList

\* Transaction::from(&bucket), append_request ..., execute
TTransaction(transactions) ==
    \E tx \in transactions :
        \E r \in {Transaction_execute(BucketStore, tx.reqs, tx.fault)} :
           /\ TListsBounded(r.B)
           /\ SetBucket(r.B)
           /\ last' = [op |-> "transaction", reqs |-> tx.reqs, fault |-> tx.fault,
                       ok |-> r.ok, results |-> r.results]
           /\ UNCHANGED <<labels, labels_inverse, data, data_labels,
                          data_labels_inverse, db, legacy, handles>>

\* the five trees under inserts and deletes
Next ==
    \/ InsertNew(OnePayload, CoreLabels)
    \/ InsertCustomId(OnePayload, CoreLabels)
    \/ InsertUsingDb(OnePayload, CoreLabels)
    \/ Delete
    \/ DeleteSrc

Spec == Init /\ [][Next]_vars

\* inserts, deletes and get_one
NextGet ==
    \/ InsertNew(Payloads, {LabelA})
    \/ InsertCustomId(Payloads, {LabelA})
    \/ InsertUsingDb(Payloads, {LabelA})
    \/ Delete
    \/ GetOne

SpecGet == Init /\ [][NextGet]_vars

\* inserts, deletes and queries
NextQuery ==
    \/ InsertCustomId(OnePayload, QueryLabels)
    \/ Delete
    \/ Query(QueryLabels, Prefixes)

SpecQuery == Init /\ [][NextQuery]_vars

\* the legacy namespace
NextLegacy ==
    \/ LegacyInsert(Payloads, {LabelA, LabelB})
    \/ LegacyGet
    \/ LegacyQuery({LabelA, LabelB})
    \/ LegacyDelete

SpecLegacy == Init /\ [][NextLegacy]_vars

\* the Bucket under transactions of insert and delete requests
BucketInserts == InsertRequests(OnePayload, {<<>>, <<TLabelA>>})

NextBucket == TTransaction(Transactions(BucketInserts, BucketInserts \cup DeleteRequests))

SpecBucket == Init /\ [][NextBucket]_vars

\* the namespace names of the model
Names == Reserved \cup {"files"}

SetOpened(r, name) ==
    /\ open_trees' = r.trees
    /\ last' = [op |-> "open_namespace", name |-> name, ok |-> r.ok,
                error |-> r.error]
    /\ UNCHANGED <<labels, labels_inverse, data, data_labels,
                   data_labels_inverse, next_id, allocated, legacy, bucket, handles>>

\* db.open_namespace(name) of old/db.rs
OpenNamespaceOld == \E name \in Names : SetOpened(Db_open_namespace(open_trees, name), name)

\* db.open_namespace(name) of src/db.rs
OpenNamespace == \E name \in Names : SetOpened(DB_open_namespace(open_trees, name), name)

\* db.open_namespace(name) of src/___/db.rs
OpenNamespaceFiltered ==
    \E name \in Names : SetOpened(DB_open_namespace_filtered(open_trees, name), name)

NextOpen == OpenNamespaceOld \/ OpenNamespace \/ OpenNamespaceFiltered

SpecOpen == Init /\ [][NextOpen]_vars

\* the most ObjectIDs the counter hands out
MaxAlloc == 4

\* Db::next_id called by a thread that has not executed its request yet
NextId ==
    /\ Db_next_id(MaxAlloc)
    /\ last' = [op |-> "next_id", id |-> next_id]
    /\ UNCHANGED <<labels, labels_inverse, data, data_labels,
                   data_labels_inverse, legacy, bucket, handles>>

\* one database with two namespaces, whose inserts take their ObjectIDs
\* from the counter, and threads that have taken an ObjectID
NextNextId ==
    \/ NextId
    \/ InsertUsingDb(OnePayload, {LabelA})
    \/ LegacyInsert(OnePayload, {LabelA})
    \/ Delete
    \/ LegacyDelete

SpecNextId == Init /\ [][NextNextId]_vars

\* inserts of both designs, where a write may fail
NextInsert ==
    \/ InsertNew(OnePayload, {LabelA})
    \/ InsertFault(OnePayload, {LabelA})
    \/ TTransaction(Transactions(BucketInserts, BucketInserts))

SpecInsert == Init /\ [][NextInsert]_vars

\* the transactions that meet no storage error
Unfaulted(transactions) == {tx \in transactions : tx.fault = NoFault}

\* deletes of both designs: the five trees and the Bucket, the Bucket under
\* transactions of one request, without storage errors
NextDelete ==
    \/ InsertCustomId(OnePayload, {LabelA})
    \/ Delete
    \/ TTransaction(Unfaulted(Transactions({}, BucketInserts \cup DeleteRequests)))

SpecDelete == Init /\ [][NextDelete]_vars

\* inserts, deletes and gets of both surfaces
NextDeleteGet ==
    \/ InsertNew(Payloads, {LabelA})
    \/ InsertCustomId(Payloads, {LabelA})
    \/ Delete
    \/ GetOne
    \/ LegacyInsert(OnePayload, {LabelA})
    \/ LegacyGet
    \/ LegacyDelete

SpecDeleteGet == Init /\ [][NextDeleteGet]_vars

SetSled(D) ==
    /\ open_trees' = D.names
    /\ labels' = D.contents[<<Files, "labels">>]
    /\ labels_inverse' = D.contents[<<Files, "labels_inverse">>]
    /\ data' = D.contents[<<Files, "data">>]
    /\ data_labels' = D.contents[<<Files, "data_labels">>]
    /\ data_labels_inverse' = D.contents[<<Files, "data_labels_inverse">>]
    /\ t_labels' = D.contents[<<Testing, "labels">>]
    /\ t_labels_invert' = D.contents[<<Testing, "ilabels">>]
    /\ t_objects' = D.contents[<<Testing, "objects">>]
    /\ t_objects_labels' = D.contents[<<Testing, "objectlabels">>]
    /\ t_labels_objects' = D.contents[<<Testing, "objectilabels">>]

\* db.drop_namespace(name) of old/db.rs
DropNamespace ==
    \E name \in Names :
        /\ SetSled(Db_drop_namespace(Sled, name))
        /\ last' = [op |-> "drop_namespace", name |-> name, ok |-> TRUE]
        /\ UNCHANGED <<next_id, allocated, legacy, handles>>

\* mango.get_bucket("testing")
GetBucket ==
    /\ open_trees' = Bucket_open(open_trees, Testing)
    /\ is_ok' = TRUE
    /\ last' = [op |-> "get_bucket", name |-> Testing, ok |-> TRUE]
    /\ UNCHANGED <<labels, labels_inverse, data, data_labels, data_labels_inverse,
                   next_id, allocated, legacy, bucket, request, query_run, race>>

\* a Bucket handle was handed out by get_bucket: its trees are in the
\* database, or it was dropped
HandleExists == ~is_ok \/ Bucket_open({}, Testing) \subseteq open_trees

\* bucket.drop()
BucketDrop ==
    /\ HandleExists
    /\ SetSled(Bucket_drop(Sled, Testing))
    /\ is_ok' = FALSE
    /\ last' = [op |-> "bucket_drop", name |-> Testing, ok |-> TRUE]
    /\ UNCHANGED <<next_id, allocated, legacy, request, query_run, race>>

\* the five trees of the namespace files are in the database
FilesOpen == Namespace_open_from_db({}, Files) \subseteq open_trees

\* the five trees of the Bucket are in the database and its handle is good
BucketOpen == is_ok /\ Bucket_open({}, Testing) \subseteq open_trees

\* namespaces and the Bucket of one database: opened, written to, dropped
NextDrop ==
    \/ OpenNamespaceOld
    \/ (FilesOpen /\ InsertCustomId(OnePayload, {LabelA}))
    \/ DropNamespace
    \/ GetBucket
    \/ (BucketOpen /\ TTransaction(Unfaulted(Transactions({}, BucketInserts))))
    \/ BucketDrop

SpecDrop == Init /\ [][NextDrop]_vars

(***************************************************************************)
(* The relations the trees hold, read off the stored bytes                 *)
(***************************************************************************)
\* the ObjectIDs that have a data_labels entry, and the LabelIDs of one
DataLabelsKeys == {DeU64(k) : k \in DOMAIN data_labels}

LabelIdsOf(oid) ==
    IF Has(data_labels, SerU64(oid))
    THEN Range(DeVec(data_labels[SerU64(oid)])) ELSE {}

\* the LabelIDs that have a data_labels_inverse entry, and the ObjectIDs of one
InverseKeys == {DeU64(k) : k \in DOMAIN data_labels_inverse}

ObjectIdsOf(lid) ==
    IF Has(data_labels_inverse, SerU64(lid))
    THEN Range(DeVec(data_labels_inverse[SerU64(lid)])) ELSE {}

SeenObjectIds == DataLabelsKeys \cup UNION {ObjectIdsOf(lid) : lid \in InverseKeys}

SeenLabelIds == InverseKeys \cup UNION {LabelIdsOf(oid) : oid \in DataLabelsKeys}

\* C1 (I2, relation symmetry): after every committed insert or delete,
\* LabelID L is in data_labels[O] if and only if ObjectID O is in
\* data_labels_inverse[L].
C1_RelationSymmetry ==
    \A oid \in SeenObjectIds, lid \in SeenLabelIds :
        (lid \in LabelIdsOf(oid)) <=> (oid \in ObjectIdsOf(lid))

\* C2 (I3, no dangling labels): every LabelID in any data_labels[O] has an
\* entry in labels and an entry in labels_inverse, and its
\* data_labels_inverse list exists, is not empty and contains O.
C2_NoDanglingLabels ==
    \A oid \in DataLabelsKeys : \A lid \in LabelIdsOf(oid) :
        /\ Has(labels, SerU64(lid))
        /\ \E t \in DOMAIN labels_inverse : labels_inverse[t] = SerU64(lid)
        /\ Has(data_labels_inverse, SerU64(lid))
        /\ oid \in ObjectIdsOf(lid)

\* C3 (I1, forward/inverse consistency): labels maps LabelID L to text T if
\* and only if labels_inverse maps T to L.
C3_ForwardInverse ==
    /\ \A k \in DOMAIN labels :
          /\ Has(labels_inverse, DeLabel(labels[k]))
          /\ labels_inverse[DeLabel(labels[k])] = k
    /\ \A t \in DOMAIN labels_inverse :
          /\ Has(labels, labels_inverse[t])
          /\ DeLabel(labels[labels_inverse[t]]) = t

\* C4 (I4, referential integrity): every ObjectID in any
\* data_labels_inverse[L] list has an entry in data.
C4_ReferentialIntegrity ==
    \A lid \in InverseKeys : \A oid \in ObjectIdsOf(lid) : Has(data, SerU64(oid))

\* C5 (I5, uniqueness): no data_labels list and no data_labels_inverse list
\* holds the same ID twice.
C5_Uniqueness ==
    /\ \A k \in DOMAIN data_labels : NoDup(DeVec(data_labels[k]))
    /\ \A k \in DOMAIN data_labels_inverse : NoDup(DeVec(data_labels_inverse[k]))

\* C6 (P2, insert/get round-trip): a get_one of ObjectID O that follows the
\* insert of blob b under O returns exactly b.
C6_InsertGetRoundTrip ==
    [][(last.op = "insert" /\ last'.op = "get" /\ last'.id = last.id)
         => (last'.res.found /\ last'.res.bytes = last.payload)]_vars

(***************************************************************************)
(* Queries                                                                 *)
(***************************************************************************)
LabelIds(L) == {Label_id(l) : l \in L}

\* the labels of labels_inverse whose text starts with one of the prefixes
LabelsStartingWith(prefixes) ==
    {t \in DOMAIN labels_inverse : \E p \in prefixes : IsPrefix(p, t)}

\* the ObjectIDs listed under any of the labels
ListedUnder(L) == {oid \in SeenObjectIds : \E l \in L : oid \in ObjectIdsOf(Label_id(l))}

\* C7 (P3, include): a query with a non-empty include set, all of whose
\* labels are labels of the stored object O, and an empty exclude set
\* returns O.
C7_IncludeFindsObject ==
    (last.op = "query" /\ last.include # {} /\ last.exclude = {})
      => \A oid \in DataLabelsKeys :
            LabelIds(last.include) \subseteq LabelIdsOf(oid)
              => oid \in Range(last.results)

C7_Witness ==
    /\ last.op = "query" /\ last.exclude = {} /\ last.include_prefix = {}
    /\ Cardinality(last.include) = 1
    /\ \E oid \in DataLabelsKeys :
          /\ Cardinality(LabelIdsOf(oid)) = 2
          /\ LabelIds(last.include) \subseteq LabelIdsOf(oid)
          /\ oid \in Range(last.results)
          /\ \E other \in DataLabelsKeys :
                other # oid /\ LabelIds(last.include) \subseteq LabelIdsOf(other)

\* C8 (exclude): a query whose exclude set holds a label of the stored
\* object O does not return O, whatever it includes.
C8_ExcludeHidesObject ==
    last.op = "query"
      => \A oid \in DataLabelsKeys :
            LabelIds(last.exclude) \cap LabelIdsOf(oid) # {}
              => oid \notin Range(last.results)

C8_Witness ==
    /\ last.op = "query"
    /\ last.results # <<>>
    /\ \E oid \in DataLabelsKeys :
          /\ LabelIds(last.exclude) \cap LabelIdsOf(oid) # {}
          /\ LabelIds(last.all_includes) \cap LabelIdsOf(oid) # {}
          /\ oid \notin Range(last.results)

\* C9 (query semantics): the result is, without duplicates, the set of the
\* ObjectIDs listed under the include labels and the prefix-expanded labels
\* minus those listed under the exclude labels; labels without a list
\* contribute nothing.
C9_QueryIsUnionMinusExclude ==
    last.op = "query"
      => /\ NoDup(last.results)
         /\ Range(last.results) =
              ListedUnder(last.include \cup LabelsStartingWith(last.include_prefix))
                \ ListedUnder(last.exclude)

C9_Witness ==
    /\ last.op = "query"
    /\ last.include_prefix # {} /\ last.include # {} /\ last.exclude # {}
    /\ \E l \in last.include : ~Has(data_labels_inverse, SerU64(Label_id(l)))
    /\ \E l \in last.exclude : ~Has(data_labels_inverse, SerU64(Label_id(l)))
    /\ Len(last.results) = 2

\* C10 (P8, prefix expansion): the labels the prefixes add to the include
\* set are exactly the labels of labels_inverse whose text starts with one
\* of the prefixes.
C10_PrefixExpansion ==
    last.op = "query"
      => last.all_includes = last.include \cup LabelsStartingWith(last.include_prefix)

C10_Witness ==
    /\ last.op = "query"
    /\ last.include = {} /\ last.include_prefix = {<<97>>}
    /\ DOMAIN labels_inverse = {LabelAB, LabelB}
    /\ last.all_includes = {LabelAB}

C11_EmptyQueryRequestIsEmpty ==
    (last.op = "query" /\ last.include = {} /\ last.include_prefix = {})
      => last.results = <<>>

\* C12 (P5, get after delete): a committed delete of ObjectID O leaves O
\* absent, O stays absent over every step that is not an insert of O, and
\* a get of an absent O returns absent.
C12_DeletedStaysAbsent ==
    [][/\ (last'.op = "delete" /\ last'.ok)
            => \A O \in last'.ids : ~Namespace_get_one(Store, O).found'
       /\ last'.op = "legacy_delete"
            => \A O \in last'.ids : ~Namespace_get(LegacyStore, O).found'
       /\ \A O \in ObjectIds :
            /\ (~Has(data, SerU64(O)) /\ ~(last'.op = "insert" /\ last'.id = O))
                  => ~Has(data', SerU64(O))
            /\ (~Has(blobs, BlobKey(O))
                   /\ ~(last'.op = "legacy_insert" /\ last'.id = O))
                  => ~Has(blobs', BlobKey(O))
       /\ last'.op = "get"
            => (last'.res.found <=> Has(data, SerU64(last'.id)))
       /\ last'.op = "legacy_get"
            => (last'.res.found <=> Has(blobs, BlobKey(last'.id)))]_vars

\* a get of an ObjectID that was stored and deleted: it has no data, and a
\* list that still names it shows it had been inserted
C12_Witness ==
    /\ last.op = "get"
    /\ ~last.res.found
    /\ last.id \in ObjectIdsOf(Label_id(LabelA))

\* C13 (P5, query after delete): a query that follows the committed delete
\* of ObjectID O does not return O, whatever its include, exclude and
\* prefix sets (or its legacy label list) are.
C13_DeletedNotReturned ==
    [][/\ (last.op = "delete" /\ last.ok /\ last'.op = "query")
            => Range(last'.results) \cap last.ids = {}
       /\ (last.op = "legacy_delete" /\ last'.op = "legacy_query")
            => Range(last'.results) \cap last.ids = {}]_vars

\* the LabelIDs some data_labels list names
ReferredLabelIds == UNION {LabelIdsOf(oid) : oid \in DataLabelsKeys}

\* C14 (P7, label pruning): after a committed delete, a label that a
\* deleted blob carried and that no blob carries any more has no entry in
\* labels, none in labels_inverse under its text, and none in
\* data_labels_inverse.
C14_LabelPruning ==
    [][(last'.op = "delete" /\ last'.ok)
         => \A t \in CoreLabels \cup QueryLabels :
              ((\E oid \in last'.ids : Label_id(t) \in LabelIdsOf(oid))
                 /\ Label_id(t) \notin ReferredLabelIds')
                => /\ ~Has(labels', SerU64(Label_id(t)))
                   /\ ~Has(labels_inverse', t)
                   /\ ~Has(data_labels_inverse', SerU64(Label_id(t)))]_vars

\* a transaction whose requests are all deletes
OnlyDeletes(reqs) == \A n \in DOMAIN reqs : reqs[n].type = "delete"

\* the ObjectIDs a transaction asks to delete
DeletedIds(reqs) ==
    UNION {Range(reqs[n].ids) : n \in {m \in DOMAIN reqs : reqs[m].type = "delete"}}

Without(seq, ids) == SelectSeq(seq, LAMBDA x : x \notin ids)

\* the keys of data_labels_inverse whose label one of ids carries
CarriedBy(ids) ==
    {SerU64(lid) : lid \in UNION {LabelIdsOf(id) : id \in ids}}

\* the keys of labels_objects whose label one of ids carries
TCarriedBy(ids) ==
    {ser_label(Label_try_from(str).label) :
        str \in UNION {IF Has(t_objects, SerU64(id)) /\ Has(t_objects_labels, SerU64(id))
                       THEN Range(DeStrs(t_objects_labels[SerU64(id)])) ELSE {} :
                       id \in ids}}

\* a delete of the five trees and a label it shares with other blobs
SharedLabelKept ==
    (last'.op = "delete" /\ last'.ok) =>
        /\ \A k \in CarriedBy(last'.ids) \cap DOMAIN data_labels_inverse :
              LET rest == Without(DeVec(data_labels_inverse[k]), last'.ids)
              IN rest # <<>> =>
                   /\ Has(data_labels_inverse', k)
                   /\ DeVec(data_labels_inverse'[k]) = rest
                   /\ Has(labels, k) =>
                        /\ Has(labels', k) /\ labels'[k] = labels[k]
                        /\ Has(labels_inverse, labels[k]) =>
                             /\ Has(labels_inverse', labels[k])
                             /\ labels_inverse'[labels[k]] = labels_inverse[labels[k]]
        /\ \A id \in ObjectIds \ last'.ids :
              /\ Has(data', SerU64(id)) = Has(data, SerU64(id))
              /\ Has(data, SerU64(id)) => data'[SerU64(id)] = data[SerU64(id)]
              /\ Has(data_labels', SerU64(id)) = Has(data_labels, SerU64(id))
              /\ Has(data_labels, SerU64(id)) =>
                    data_labels'[SerU64(id)] = data_labels[SerU64(id)]

\* a delete request of the Bucket and a label it shares with other objects
TSharedLabelKept ==
    (last'.op = "transaction" /\ OnlyDeletes(last'.reqs) /\ last'.ok) =>
        LET ids == DeletedIds(last'.reqs)
        IN /\ \A k \in TCarriedBy(ids) \cap DOMAIN t_labels_objects :
                 LET rest == Without(DeVec(t_labels_objects[k]), ids)
                 IN rest # <<>> =>
                      /\ Has(t_labels_objects', k)
                      /\ DeVec(t_labels_objects'[k]) = rest
                      /\ Has(t_labels, k) =>
                           Has(t_labels', k) /\ t_labels'[k] = t_labels[k]
                      /\ t_labels_invert' = t_labels_invert
           /\ \A id \in ObjectIds \ ids :
                 /\ Has(t_objects', SerU64(id)) = Has(t_objects, SerU64(id))
                 /\ Has(t_objects, SerU64(id)) =>
                       t_objects'[SerU64(id)] = t_objects[SerU64(id)]
                 /\ Has(t_objects_labels', SerU64(id)) = Has(t_objects_labels, SerU64(id))
                 /\ Has(t_objects_labels, SerU64(id)) =>
                       t_objects_labels'[SerU64(id)] = t_objects_labels[SerU64(id)]

\* C16: deleting an ObjectID O whose label L other blobs carry too leaves
\* in data_labels_inverse[L] exactly the other referents in their previous
\* order, leaves labels[L] and labels_inverse[text(L)] as they were, and
\* leaves data and data_labels of every other ObjectID as they were
C16_DeleteKeepsSharedLabel == [][SharedLabelKept /\ TSharedLabelKept]_vars

DeleteSites == {"obj", "obj_lbl", "lbl_obj", "lbl"}

\* C18: a delete request one of whose removals or updates meets a storage
\* error returns an error and commits nothing.  obj.remove is the first
\* operation on every ObjectID of the request, so an error of it is always
\* met; an error that is returned leaves every tree as it was
C18_DeleteAllOrNothing ==
    [][(last'.op = "transaction" /\ last'.fault.site \in DeleteSites)
          => /\ last'.fault.site = "obj" => ~last'.ok
             /\ ~last'.ok => (last'.results = <<>> /\ UNCHANGED bucket)]_vars

C20_ReservedNamesRefused ==
    [][last'.op = "open_namespace"
          => IF last'.name \in Reserved
             THEN /\ ~last'.ok
                  /\ last'.error = "BadNamespaceName"
                  /\ open_trees' = open_trees
             ELSE last'.ok]_vars

\* transaction.execute() of a Transaction made from the Bucket handle, whether
\* or not the handle was dropped: execute looks at completed only; what sled
\* does with the trees of a dropped handle is sled's, it takes the writes or
\* gives a sled error
HandleTransaction(transactions) ==
    /\ HandleExists
    /\ \E tx \in transactions :
           \E r \in {Transaction_execute(BucketStore, tx.reqs, tx.fault)}
                    \cup (IF BucketOpen THEN {}
                          ELSE {[B |-> BucketStore, ok |-> FALSE, results |-> <<>>]}) :
               /\ TListsBounded(r.B)
               /\ SetBucket(r.B)
               /\ last' = [op |-> "transaction", reqs |-> tx.reqs, fault |-> tx.fault,
                           ok |-> r.ok, results |-> r.results,
                           error |-> IF r.ok THEN "none" ELSE "SledTxError"]
               /\ UNCHANGED <<labels, labels_inverse, data, data_labels,
                              data_labels_inverse, db, legacy, handles>>

\* a Bucket handle: opened, written to through transactions, dropped
NextHandle ==
    \/ GetBucket
    \/ BucketDrop
    \/ HandleTransaction(Unfaulted(Transactions({}, BucketInserts)))

SpecHandle == Init /\ [][NextHandle]_vars

\* the UTF-8 bytes of the strings the tree names are made of
Utf8 ==
    [s \in {"files", "ext", "namespace", "namespaces", "blobs", "labels",
            "relations", "_labels", "_blobs", "__sled__", "__sled__default"} |->
        CASE s = "files" -> <<102, 105, 108, 101, 115>>
          [] s = "ext" -> <<101, 120, 116>>
          [] s = "namespace" -> <<110, 97, 109, 101, 115, 112, 97, 99, 101>>
          [] s = "namespaces" -> <<110, 97, 109, 101, 115, 112, 97, 99, 101, 115>>
          [] s = "blobs" -> <<98, 108, 111, 98, 115>>
          [] s = "labels" -> <<108, 97, 98, 101, 108, 115>>
          [] s = "relations" -> <<114, 101, 108, 97, 116, 105, 111, 110, 115>>
          [] s = "_labels" -> <<95, 108, 97, 98, 101, 108, 115>>
          [] s = "_blobs" -> <<95, 98, 108, 111, 98, 115>>
          [] s = "__sled__" -> <<95, 95, 115, 108, 101, 100, 95, 95>>
          [] s = "__sled__default" ->
                <<95, 95, 115, 108, 101, 100, 95, 95, 100, 101, 102, 97, 117, 108, 116>>]

\* the key Namespace::new gives open_tree:
\* bincode::serialize(&format!("{name}{SEPARATOR}{tree}"))
tree_key(name, tree) == BincodeStr(Utf8[name] \o SEPARATOR \o Utf8[tree])

\* sled::Db::tree_names: the keys of the trees that were opened and sled's
\* own default tree
tree_names(T) == {Utf8["__sled__default"]} \cup {tree_key(n[1], n[2]) : n \in T}

\* bincode::deserialize::<&str>: a u64 length, then that many bytes
bincode_is_str(bytes) ==
    /\ Len(bytes) >= 8
    /\ \A i \in 2..8 : bytes[i] = 0
    /\ bytes[1] <= Len(bytes) - 8

\* the closure of list_trees: the bincode string, or else the bytes as UTF-8
tree_name(bytes) ==
    IF bincode_is_str(bytes) THEN SubSeq(bytes, 9, 8 + bytes[1]) ELSE bytes

starts_with(s, prefix) ==
    Len(s) >= Len(prefix) /\ SubSeq(s, 1, Len(prefix)) = prefix

ends_with(s, suffix) ==
    Len(s) >= Len(suffix) /\ SubSeq(s, Len(s) - Len(suffix) + 1, Len(s)) = suffix

\* str::trim_end_matches: the suffix is taken off as often as it ends the string
RECURSIVE trim_end_matches(_, _)
trim_end_matches(s, suffix) ==
    IF ends_with(s, suffix)
    THEN trim_end_matches(SubSeq(s, 1, Len(s) - Len(suffix)), suffix)
    ELSE s

\* the order of String: byte by byte, the shorter of two first
RECURSIVE StrLess(_, _)
StrLess(a, b) ==
    IF b = <<>> THEN FALSE
    ELSE IF a = <<>> THEN TRUE
    ELSE IF Head(a) # Head(b) THEN Head(a) < Head(b)
    ELSE StrLess(Tail(a), Tail(b))

\* collect, sort() and dedup() of strings
RECURSIVE SortStrs(_)
SortStrs(S) ==
    IF S = {} THEN <<>>
    ELSE LET m == CHOOSE x \in S : \A y \in S \ {x} : StrLess(x, y)
         IN <<m>> \o SortStrs(S \ {m})

\* DB::list_trees
DB_list_trees(T) == SortStrs({tree_name(bytes) : bytes \in tree_names(T)})

RECURSIVE SeqToSet(_)
SeqToSet(xs) == IF xs = <<>> THEN {} ELSE {Head(xs)} \cup SeqToSet(Tail(xs))

\* DB::list_namespaces
DB_list_namespaces(T) ==
    SortStrs({trim_end_matches(trim_end_matches(tree, Utf8["_labels"]), Utf8["_blobs"]) :
              tree \in {t \in SeqToSet(DB_list_trees(T)) :
                          ~starts_with(t, Utf8["__sled__"])}})

\* Namespace::drop of the bincode draft
Namespace_drop(T, name) == T \ TreeNames(name, {"blobs", "labels", "relations"})

\* db.list_namespaces()
ListNamespaces ==
    /\ last' = [op |-> "list_namespaces", result |-> DB_list_namespaces(open_trees)]
    /\ UNCHANGED <<labels, labels_inverse, data, data_labels, data_labels_inverse,
                   db, legacy, bucket, handles>>

\* db.drop_namespace(namespace) of the bincode draft
LegacyDropNamespace ==
    \E name \in Names :
        /\ Namespace_new({}, name) \subseteq open_trees
        /\ open_trees' = Namespace_drop(open_trees, name)
        /\ IF name = Files
           THEN SetLegacy(LegacyTrees(EmptyTree, EmptyTree, EmptyTree))
           ELSE UNCHANGED legacy
        /\ last' = [op |-> "drop_namespace", name |-> name, ok |-> TRUE]
        /\ UNCHANGED <<labels, labels_inverse, data, data_labels,
                       data_labels_inverse, next_id, allocated, bucket, handles>>

\* the namespaces of the bincode draft: opened, listed, dropped
NextList ==
    \/ OpenNamespace
    \/ OpenNamespaceFiltered
    \/ ListNamespaces
    \/ LegacyDropNamespace

SpecList == Init /\ [][NextList]_vars

\* InsertRequest::new_custom_id, QueryRequest::new, DeleteRequest::new
Request_new(kind, id, payload) ==
    [NoRequest EXCEPT !.kind = kind, !.id = id, !.payload = payload]

\* the methods that build a request, and the field each one inserts into
RequestMethods ==
    [insert |-> {"add_label"}, query |-> {"include", "include_prefix", "exclude"},
     delete |-> {"add_object"}]

FieldOf(method) ==
    CASE method = "add_label" -> "labels"
      [] method = "include" -> "include_labels"
      [] method = "include_prefix" -> "include_prefix"
      [] method = "exclude" -> "exclude_labels"
      [] method = "add_object" -> "objects"

\* add_label, include, include_prefix, exclude, add_object: AlreadyExecuted
\* when is_executed, else the value goes into the set of the request
Request_add(req, method, x) ==
    IF req.executed
    THEN [request |-> req, ok |-> FALSE, error |-> "AlreadyExecuted"]
    ELSE [request |-> [req EXCEPT ![FieldOf(method)] = @ \cup {x}],
          ok |-> TRUE, error |-> "none"]

\* InsertRequest::execute(self, ns) of src/insert.rs: the request is consumed
InsertRequest_run(S, req, ord) ==
    IF req.executed
    THEN [S |-> S, request |-> NoRequest, ok |-> FALSE, error |-> "AlreadyExecuted"]
    ELSE [S |-> InsertRequest_execute(S, req.id, req.payload, ord),
          request |-> NoRequest, ok |-> TRUE, error |-> "none"]

\* QueryRequest::execute(&self, ns) of old/query.rs
QueryRequest_run(S, req) ==
    IF req.executed
    THEN [S |-> S, request |-> req, ok |-> FALSE, error |-> "AlreadyExecuted"]
    ELSE [S |-> S, request |-> [req EXCEPT !.executed = TRUE],
          ok |-> TRUE, error |-> "none"]

\* the result of DeleteRequest::execute as the step of a request object
DeleteResult(r) ==
    [S |-> r.S, request |-> [NoRequest EXCEPT !.kind = "delete", !.executed = TRUE],
     ok |-> r.ok, error |-> IF r.ok THEN "none" ELSE "sled"]

\* DeleteRequest::execute(&self, ns) of src/delete.rs: executed is set, the
\* objects are taken out of the request and deleted in one transaction
DeleteRequest_run(S, req, ord) == DeleteResult(DeleteRequest_execute_src(S, ord))

\* the first values of the builder methods of the request kinds
RequestArgs(method) ==
    IF method = "add_object" THEN ObjectIds
    ELSE IF method = "include_prefix" THEN {<<>>}
    ELSE {LabelA}

\* a request object is made
RequestNew ==
    \E kind \in {"insert", "query", "delete"}, id \in ObjectIds,
       payload \in OnePayload :
        /\ kind # "insert" => id = 0
        /\ request' = Request_new(kind, id, IF kind = "insert" THEN payload ELSE <<>>)
        /\ last' = [op |-> "new", kind |-> kind]
        /\ UNCHANGED <<labels, labels_inverse, data, data_labels,
                       data_labels_inverse, db, legacy, bucket, is_ok, query_run,
                       race>>

\* one of the builder methods is called on the request object
RequestAdd ==
    /\ request.kind # "none"
    /\ \E method \in RequestMethods[request.kind] :
         \E x \in RequestArgs(method) :
           \E r \in {Request_add(request, method, x)} :
             /\ request' = r.request
             /\ last' = [op |-> method, ok |-> r.ok, error |-> r.error]
             /\ UNCHANGED <<labels, labels_inverse, data, data_labels,
                            data_labels_inverse, db, legacy, bucket, is_ok,
                            query_run, race>>

Request_run(S, req, ord) ==
    IF req.kind = "insert" THEN InsertRequest_run(S, req, ord)
    ELSE IF req.kind = "query" THEN QueryRequest_run(S, req)
    ELSE DeleteRequest_run(S, req, ord)

\* execute is called on the request object
RequestExecute ==
    /\ request.kind # "none"
    /\ \E ord \in Orders(IF request.kind = "insert" THEN request.labels
                         ELSE request.objects) :
         \E r \in {Request_run(Store, request, ord)} :
           /\ ListsBounded(r.S)
           /\ SetStore(r.S)
           /\ request' = r.request
           /\ last' = [op |-> "execute", kind |-> request.kind, ok |-> r.ok,
                       error |-> r.error]
           /\ UNCHANGED <<db, legacy, bucket, is_ok, query_run, race>>

\* request objects: made, built and executed, as often as the caller likes
NextRequest == RequestNew \/ RequestAdd \/ RequestExecute

SpecRequest == Init /\ [][NextRequest]_vars

\* no two requests are running at the same time
Quiet == race.pending = {}

\* the LabelID of the text is in data_labels[o1] and o1 is all that
\* data_labels_inverse lists under it
SoleReferent(S, o1, text) ==
    /\ Has(S.data_labels, SerU64(o1))
    /\ Label_id(text) \in Range(DeVec(S.data_labels[SerU64(o1)]))
    /\ Has(S.data_labels_inverse, SerU64(Label_id(text)))
    /\ DeVec(S.data_labels_inverse[SerU64(Label_id(text))]) = <<o1>>

\* two callers start a DeleteRequest of {o1} and an InsertRequest of o2 with
\* the label at the same time; either sled transaction may commit first
RaceStart ==
    /\ Quiet
    /\ \E o1 \in ObjectIds, o2 \in ObjectIds, payload \in OnePayload :
         /\ o1 # o2
         /\ SoleReferent(Store, o1, LabelA)
         /\ race' = [pending |-> {"delete", "insert"}, o1 |-> o1, o2 |-> o2,
                     payload |-> payload, label |-> LabelA]
         /\ last' = [op |-> "race", o1 |-> o1, o2 |-> o2]
    /\ UNCHANGED <<labels, labels_inverse, data, data_labels, data_labels_inverse,
                   db, legacy, bucket, is_ok, request, query_run>>

\* the transaction of the DeleteRequest commits (old/delete.rs)
RaceDelete ==
    /\ "delete" \in race.pending
    /\ \E r \in {DeleteRequest_execute(Store, <<race.o1>>)} :
         /\ r.ok
         /\ SetStore(r.S)
    /\ race' = [race EXCEPT !.pending = @ \ {"delete"}]
    /\ last' = [op |-> "delete", ids |-> {race.o1}, ok |-> TRUE, by |-> "race"]
    /\ UNCHANGED <<db, legacy, bucket, is_ok, request, query_run>>

\* the transaction of the InsertRequest commits (src/insert.rs)
RaceInsert ==
    /\ "insert" \in race.pending
    /\ \E S \in {InsertRequest_execute(Store, race.o2, race.payload, <<race.label>>)} :
         SetStore(S)
    /\ race' = [race EXCEPT !.pending = @ \ {"insert"}]
    /\ last' = [op |-> "insert", id |-> race.o2, payload |-> race.payload,
                labels |-> {race.label}, by |-> "race"]
    /\ UNCHANGED <<db, legacy, bucket, is_ok, request, query_run>>

\* inserts and deletes one after the other, and now and then a delete and an
\* insert at the same time
NextRace ==
    \/ (Quiet /\ InsertCustomId(OnePayload, {LabelA}))
    \/ (Quiet /\ Delete)
    \/ RaceStart
    \/ RaceDelete
    \/ RaceInsert

SpecRace == Init /\ [][NextRace]_vars

\* what the query that is running would return on the committed state S,
\* kept with the query for every state that was committed since it started
Observe(q, S) ==
    IF q.pc = "idle" THEN q
    ELSE [q EXCEPT !.commits = @ + 1,
                   !.snapshots =
                      @ \cup {QueryRequest_execute(S, q.include, q.exclude, {})}]

\* the most commits of other callers while one query runs
MaxCommits == 1

MayCommit == IF query_run.pc = "idle" THEN TRUE ELSE query_run.commits < MaxCommits

\* an InsertRequest of another caller commits, whether or not a query is
\* reading the trees
ConcurrentInsert(payloads, texts) ==
    /\ MayCommit
    /\ \E oid \in ObjectIds, payload \in payloads, L \in LabelSets(texts) :
        \E ord \in Orders(L) :
            \E S \in {InsertRequest_execute(Store, oid, payload, ord)} :
                /\ ListsBounded(S)
                /\ SetStore(S)
                /\ query_run' = Observe(query_run, S)
                /\ last' = [op |-> "insert", id |-> oid, payload |-> payload,
                            labels |-> L]
                /\ UNCHANGED <<db, legacy, bucket, is_ok, request, race>>

\* a DeleteRequest of another caller commits
ConcurrentDelete ==
    /\ MayCommit
    /\ \E D \in DeleteSets : \E ord \in Orders(D) :
        \E r \in {DeleteRequest_execute(Store, ord)} :
            /\ SetStore(r.S)
            /\ query_run' = Observe(query_run, r.S)
            /\ last' = [op |-> "delete", ids |-> D, ok |-> r.ok]
            /\ UNCHANGED <<db, legacy, bucket, is_ok, request, race>>

\* QueryRequest::execute up to the loops: executed is set and the label sets
\* are cloned
QueryStart(texts) ==
    /\ query_run.pc = "idle"
    /\ \E inc \in LabelSets(texts) \ {{}}, exc \in LabelSets(texts) :
         query_run' = [pc |-> "reading", include |-> inc, exclude |-> exc,
                       todo_include |-> inc, todo_exclude |-> exc,
                       include_object_ids |-> {}, exclude_label_ids |-> {},
                       commits |-> 0,
                       snapshots |-> {QueryRequest_execute(Store, inc, exc, {})}]
    /\ last' = [op |-> "query_start"]
    /\ UNCHANGED <<labels, labels_inverse, data, data_labels, data_labels_inverse,
                   db, legacy, bucket, is_ok, request, race>>

\* one slebal_atad.get of the include loop, and after that loop of the
\* exclude loop: the list of one label as it is in the tree now
QueryGet ==
    /\ query_run.pc = "reading"
    /\ IF query_run.todo_include # {}
       THEN \E l \in query_run.todo_include :
              query_run' = [query_run EXCEPT
                               !.todo_include = @ \ {l},
                               !.include_object_ids =
                                  CollectObjects(data_labels_inverse, {l}, @)]
       ELSE \E l \in query_run.todo_exclude :
              query_run' = [query_run EXCEPT
                               !.todo_exclude = @ \ {l},
                               !.exclude_label_ids =
                                  CollectObjects(data_labels_inverse, {l}, @)]
    /\ last' = [op |-> "query_get"]
    /\ UNCHANGED <<labels, labels_inverse, data, data_labels, data_labels_inverse,
                   db, legacy, bucket, is_ok, request, race>>

\* the filter at the end of QueryRequest::execute and its return
QueryCollect ==
    /\ query_run.pc = "reading"
    /\ query_run.todo_include = {}
    /\ query_run.todo_exclude = {}
    /\ last' = [op |-> "query_done", include |-> query_run.include,
                exclude |-> query_run.exclude,
                results |-> {id \in query_run.include_object_ids :
                               id \notin query_run.exclude_label_ids},
                snapshots |-> query_run.snapshots]
    /\ query_run' = [pc |-> "idle"]
    /\ UNCHANGED <<labels, labels_inverse, data, data_labels, data_labels_inverse,
                   db, legacy, bucket, is_ok, request, race>>

\* a query that reads the trees while inserts and deletes commit
NextConcurrent ==
    \/ ConcurrentInsert(OnePayload, {LabelA, LabelB})
    \/ ConcurrentDelete
    \/ QueryStart({LabelA, LabelB})
    \/ QueryGet
    \/ QueryCollect

SpecConcurrent == Init /\ [][NextConcurrent]_vars

\* GetRequest::execute: for every id of the request the pair of the id and
\* the bytes of the object, and Bytes::new() for an id that obj does not hold
RECURSIVE GetRequest_execute(_, _)
GetRequest_execute(B, ids) ==
    IF ids = <<>> THEN <<>>
    ELSE <<IF Has(B.t_objects, SerU64(Head(ids)))
           THEN <<Head(ids), DeBytes(B.t_objects[SerU64(Head(ids))])>>
           ELSE <<Head(ids), <<>> >> >>
         \o GetRequest_execute(B, Tail(ids))

\* a Transaction of one GetRequest of one id is executed on the Bucket
TGet ==
    /\ \E id \in ObjectIds :
         last' = [op |-> "t_get", id |-> id, ok |-> TRUE,
                  results |-> GetRequest_execute(BucketStore, <<id>>)]
    /\ UNCHANGED <<labels, labels_inverse, data, data_labels, data_labels_inverse,
                   db, legacy, bucket, handles>>

\* objects, some of no bytes, put into the Bucket, deleted and got
NextBucketGet ==
    \/ TTransaction(Unfaulted(Transactions({},
          InsertRequests(Payloads, {<<>>, <<TLabelA>>}) \cup DeleteRequests)))
    \/ TGet

SpecBucketGet == Init /\ [][NextBucketGet]_vars

\* the derived Ord of Label(String, String): the first string, then the second
LabelLess(a, b) ==
    StrLess(a[1], b[1]) \/ (a[1] = b[1] /\ StrLess(a[2], b[2]))

\* my_labels.sort()
RECURSIVE SortLabelInsert(_, _)
SortLabelInsert(sorted, l) ==
    IF sorted = <<>> THEN <<l>>
    ELSE IF LabelLess(Head(sorted), l)
         THEN <<Head(sorted)>> \o SortLabelInsert(Tail(sorted), l)
         ELSE <<l>> \o sorted

RECURSIVE SortLabels(_)
SortLabels(ls) ==
    IF ls = <<>> THEN <<>> ELSE SortLabelInsert(SortLabels(Tail(ls)), Head(ls))

\* Vec::dedup: of equal neighbours the first stays
RECURSIVE Dedup(_)
Dedup(xs) ==
    IF Len(xs) < 2 THEN xs
    ELSE IF xs[1] = xs[2] THEN Dedup(Tail(xs))
    ELSE <<Head(xs)>> \o Dedup(Tail(xs))

\* InsertRequest::add_label of query/insert.rs: labels.push(label)
add_label(my_labels, label) == Append(my_labels, label)

\* InsertRequest::add_labels of query/insert.rs: extend, sort, dedup
add_labels(my_labels, ls) == Dedup(SortLabels(my_labels \o ls))

\* the label lists of the requests that add_label and add_labels build in
\* two calls or fewer
BuiltLabelLists ==
    LET one == {add_label(<<>>, TLabelA), add_labels(<<>>, <<TLabelA>>),
                add_labels(<<>>, <<TLabelA, TLabelA>>)}
    IN {<<>>} \cup one
         \cup {add_label(ls, TLabelA) : ls \in one}
         \cup {add_labels(ls, <<TLabelA>>) : ls \in one}

\* objects put into the Bucket by requests built with add_label and
\* add_labels, and deleted
NextBucketLabels ==
    TTransaction(Unfaulted(Transactions({},
        InsertRequests(OnePayload, BuiltLabelLists) \cup DeleteRequests)))

SpecBucketLabels == Init /\ [][NextBucketLabels]_vars

\* FindRequest::execute, the objects of one group: the ObjectIDs lbl_obj
\* holds under the labels of the group
RECURSIVE GroupObjects(_, _)
GroupObjects(B, ls) ==
    IF ls = <<>> THEN {}
    ELSE (IF Has(B.t_labels_objects, ser_label(Head(ls)))
          THEN Range(DeVec(B.t_labels_objects[ser_label(Head(ls))]))
          ELSE {})
         \cup GroupObjects(B, Tail(ls))

\* FindRequest::execute, the fold over the groups in the order they were
\* added: an include group extends the accumulator, an exclude group retains
\* the ids it does not hold
RECURSIVE FindObjects(_, _, _)
FindObjects(B, groups, acc) ==
    IF groups = <<>> THEN acc
    ELSE FindObjects(B, Tail(groups),
           IF Head(groups).include
           THEN acc \cup GroupObjects(B, Head(groups).labels)
           ELSE acc \ GroupObjects(B, Head(groups).labels))

\* FindRequest::execute: every object found, with the labels obj_lbl holds
\* for it; the order of the pairs is the order of a HashSet
FindRequest_execute(B, groups) ==
    {<<id, IF Has(B.t_objects_labels, SerU64(id))
           THEN DeStrs(B.t_objects_labels[SerU64(id)]) ELSE <<>> >> :
        id \in FindObjects(B, groups, {})}

\* add_include_group and add_exclude_group
LabelGroup(include, ls) == [include |-> include, labels |-> ls]

TLabelB == <<<<107>>, <<98>>>>

\* the longest list of groups of a FindRequest in the model
MaxGroups == 2

FindGroups ==
    UNION {[1..n -> {LabelGroup(i, ls) : i \in BOOLEAN,
                                         ls \in {<<TLabelA>>, <<TLabelB>>}}] :
             n \in 0..MaxGroups}

\* a Transaction of one FindRequest is executed on the Bucket
TFind ==
    /\ \E groups \in FindGroups :
         last' = [op |-> "t_find", groups |-> groups, ok |-> TRUE,
                  results |-> FindRequest_execute(BucketStore, groups)]
    /\ UNCHANGED <<labels, labels_inverse, data, data_labels, data_labels_inverse,
                   db, legacy, bucket, handles>>

\* objects put into the Bucket under two labels, and found
NextFind ==
    \/ TTransaction(Unfaulted(Transactions({},
          InsertRequests(OnePayload, {<<>>, <<TLabelA>>, <<TLabelB>>}))))
    \/ TFind

SpecFind == Init /\ [][NextFind]_vars

\* Transaction::from(&bucket): no requests, no results, not completed
Transaction_from ==
    [kind |-> "transaction", reqs |-> <<>>, results |-> <<>>, completed |-> FALSE]

\* Transaction::append_request
Transaction_append_request(tx, req) ==
    IF tx.completed
    THEN [tx |-> tx, ok |-> FALSE, error |-> "AlreadyExecuted"]
    ELSE [tx |-> [tx EXCEPT !.reqs = Append(@, req)], ok |-> TRUE, error |-> "none"]

\* Transaction::reset
Transaction_reset(tx) == [tx EXCEPT !.results = <<>>, !.completed = FALSE]

\* Request::execute of the requests a Transaction holds: a GetRequest reads,
\* an insert or a delete writes
TxRequest_execute(B, req, fault) ==
    IF req.type = "get"
    THEN [B |-> B, ok |-> TRUE, out |-> GetRequest_execute(B, req.ids)]
    ELSE Request_execute(B, req, fault)

\* the request after its execute: GetRequest::execute takes the ids out of
\* the request (self.ids.take()), the other requests keep their fields
TxRequest_after(req) ==
    IF req.type = "get" THEN [req EXCEPT !.ids = <<>>] ELSE req

\* one run of the closure of Transaction::execute from request n on: each
\* request is executed and its result is pushed to the results the closure
\* captured; an error ends the run
RECURSIVE TxBody(_, _, _)
TxBody(acc, n, fault) ==
    IF n > Len(acc.reqs) \/ ~acc.ok THEN acc
    ELSE \* r is the result of request n
         LET r == TxRequest_execute(acc.B, acc.reqs[n],
                                    IF fault.req = n THEN fault ELSE NoFault)
         IN TxBody([B |-> r.B, ok |-> r.ok,
                    reqs |-> [acc.reqs EXCEPT ![n] = TxRequest_after(@)],
                    results |-> IF r.ok THEN Append(acc.results, r.out)
                                ELSE acc.results],
                   n + 1, fault)

\* the loop of the transaction of the five trees: the closure runs once more
\* after every conflict, each run on the trees as they are committed; the
\* requests and the captured results live outside the closure and keep what
\* the runs before did to them
RECURSIVE TxRuns(_, _, _, _)
TxRuns(B, acc, runs, fault) ==
    IF runs = 1
    THEN TxBody([acc EXCEPT !.B = B, !.ok = TRUE], 1, fault)
    ELSE TxRuns(B, TxBody([acc EXCEPT !.B = B, !.ok = TRUE], 1, NoFault),
                runs - 1, fault)

\* Transaction::execute on the Transaction object: AlreadyExecuted when
\* completed, else the transaction of the five trees; after a commit the
\* results of the closure become the results of the Transaction
Transaction_execute_object(B, tx, runs, fault) ==
    IF tx.completed
    THEN [B |-> B, tx |-> tx, ok |-> FALSE, error |-> "AlreadyExecuted"]
    ELSE LET r == TxRuns(B, [B |-> B, ok |-> TRUE, reqs |-> tx.reqs, results |-> <<>>],
                          runs, fault)
         IN IF r.ok
            THEN [B |-> r.B, ok |-> TRUE, error |-> "none",
                  tx |-> [tx EXCEPT !.reqs = r.reqs, !.results = r.results]]
            ELSE [B |-> B, ok |-> FALSE, error |-> "SledTxError",
                  tx |-> [tx EXCEPT !.reqs = r.reqs]]

\* the most requests of a Transaction object, and the most runs of the
\* closure of one execute, in the model
MaxReqs == 2

MaxRuns == 2

GetRequests == {[type |-> "get", ids |-> ids] : ids \in {<<0>>, <<0, 1>>}}

TxRequests ==
    InsertRequests(OnePayload, {<<TLabelA>>}) \cup GetRequests
    \cup {[type |-> "delete", ids |-> <<0>>]}

\* let tx = Transaction::from(&bucket)
TransactionNew ==
    /\ request.kind # "transaction"
    /\ request' = Transaction_from
    /\ last' = [op |-> "tx_new"]
    /\ UNCHANGED <<labels, labels_inverse, data, data_labels, data_labels_inverse,
                   db, legacy, bucket, is_ok, query_run, race>>

\* tx.append_request(req)
TransactionAppend ==
    /\ request.kind = "transaction"
    /\ Len(request.reqs) < MaxReqs
    /\ \E req \in TxRequests :
         \E r \in {Transaction_append_request(request, req)} :
            /\ request' = r.tx
            /\ last' = [op |-> "tx_append", ok |-> r.ok, error |-> r.error]
    /\ UNCHANGED <<labels, labels_inverse, data, data_labels, data_labels_inverse,
                   db, legacy, bucket, is_ok, query_run, race>>

\* tx.reset()
TransactionReset ==
    /\ request.kind = "transaction"
    /\ request' = Transaction_reset(request)
    /\ last' = [op |-> "tx_reset"]
    /\ UNCHANGED <<labels, labels_inverse, data, data_labels, data_labels_inverse,
                   db, legacy, bucket, is_ok, query_run, race>>

\* tx.execute(): the closure runs once, or once more after a conflict; the
\* first request may meet a storage error in the last run
TransactionExecute ==
    /\ request.kind = "transaction"
    /\ \E runs \in 1..MaxRuns :
       \E fault \in {NoFault} \cup
                    (IF request.reqs # <<>> /\ request.reqs[1].type # "get"
                     THEN FaultsOf(request.reqs[1], 1) ELSE {}) :
         \E r \in {Transaction_execute_object(BucketStore, request, runs, fault)} :
            /\ TListsBounded(r.B)
            /\ SetBucket(r.B)
            /\ request' = r.tx
            /\ last' = [op |-> "tx_execute", runs |-> runs, fault |-> fault,
                        tx |-> request, store |-> BucketStore,
                        ok |-> r.ok, error |-> r.error]
    /\ UNCHANGED <<labels, labels_inverse, data, data_labels, data_labels_inverse,
                   db, legacy, is_ok, query_run, race>>

\* a Transaction object: built, filled, executed, executed again
NextTransaction ==
    \/ TransactionNew
    \/ TransactionAppend
    \/ TransactionReset
    \/ TransactionExecute

SpecTransaction == Init /\ [][NextTransaction]_vars

\* the requests that run at the same time in the model
MaxWriters == 2

Writers == 1..MaxWriters

\* the body of the transaction of a request on the trees it reads: the trees
\* it would commit, and whether the body returned Ok
Writer_body(S, w) ==
    IF w.kind = "insert"
    THEN [S |-> InsertRequest_execute(S, w.oid, w.payload, <<w.label>>), ok |-> TRUE]
    ELSE DeleteRequest_execute(S, <<w.oid>>)

\* the transaction never meets a conflict
Conflicts_Never(read, S) == FALSE

\* the transaction meets a conflict at the end of every run of its closure
Conflicts_Always(read, S) == TRUE

\* (labels, slebal, data, data_labels, slebal_atad).transaction(...): the
\* body meets a conflict when another transaction has committed to the trees
\* since the body read them
Conflicts(read, S) == read # S

\* the requests of the writers, none of them started
WriterRequests(texts) ==
    {[kind |-> kind, oid |-> oid, payload |-> payload, label |-> text,
      pc |-> "body", read |-> Store, result |-> Store, ok |-> TRUE, retried |-> FALSE] :
        kind \in {"insert", "delete"}, oid \in ObjectIds, payload \in OnePayload,
        text \in texts}

RECURSIVE RunInOrder(_, _, _)
RunInOrder(S, ws, n) ==
    IF n > Len(ws) THEN S
    ELSE RunInOrder(Writer_body(S, ws[n]).S, ws, n + 1)

\* no requests have run at the same time yet
NoWriters == "writers" \notin DOMAIN race

\* callers on MaxWriters threads call execute on an InsertRequest or a
\* DeleteRequest each, at the same time
WritersStart(texts) ==
    /\ NoWriters
    /\ \E ws \in [Writers -> WriterRequests(texts)] :
         /\ ListsBounded(RunInOrder(Store, ws, 1))
         /\ race' = [pending |-> Writers, writers |-> ws]
    /\ last' = [op |-> "writers"]
    /\ UNCHANGED <<labels, labels_inverse, data, data_labels, data_labels_inverse,
                   db, legacy, bucket, is_ok, request, query_run>>

Running(p) ==
    IF p \in race.pending THEN "writers" \in DOMAIN race ELSE FALSE

\* the closure of the transaction of writer p runs on the trees as they are
WriterBody(p) ==
    /\ Running(p)
    /\ race.writers[p].pc = "body"
    /\ \E r \in {Writer_body(Store, race.writers[p])} :
         race' = [race EXCEPT !.writers[p].pc = "commit",
                              !.writers[p].read = Store,
                              !.writers[p].result = r.S,
                              !.writers[p].ok = r.ok]
    /\ UNCHANGED <<labels, labels_inverse, data, data_labels, data_labels_inverse,
                   db, legacy, bucket, is_ok, request, query_run, last>>

\* the end of the closure of writer p: on a conflict the closure will run
\* again, else the writes are committed at once, or nothing is written when
\* the body returned an error, and execute returns
WriterCommit(p) ==
    /\ Running(p)
    /\ race.writers[p].pc = "commit"
    /\ IF Conflicts(race.writers[p].read, Store)
       THEN /\ race' = [race EXCEPT !.writers[p].pc = "body",
                                    !.writers[p].retried = TRUE]
            /\ last' = [op |-> "conflict", writer |-> p]
            /\ UNCHANGED <<labels, labels_inverse, data, data_labels,
                           data_labels_inverse>>
       ELSE /\ race' = [race EXCEPT !.pending = @ \ {p},
                                    !.writers[p].pc = "done"]
            /\ SetStore(IF race.writers[p].ok THEN race.writers[p].result ELSE Store)
            /\ last' = [op |-> "returned", writer |-> p, ok |-> race.writers[p].ok]
    /\ UNCHANGED <<db, legacy, bucket, is_ok, request, query_run>>

\* inserts and deletes one after the other, and then requests on several
\* threads at the same time
NextWriters ==
    \/ (NoWriters /\ InsertCustomId(OnePayload, {LabelA}))
    \/ (NoWriters /\ Delete)
    \/ WritersStart({LabelA})
    \/ \E p \in Writers : WriterBody(p)
    \/ \E p \in Writers : WriterCommit(p)

SpecWriters == Init /\ [][NextWriters]_vars

\* the threads of the writers are scheduled fairly: a closure that can run
\* runs, and a closure that has run comes to its end
SpecWritersFair ==
    /\ SpecWriters
    /\ \A p \in Writers : WF_vars(WriterBody(p)) /\ WF_vars(WriterCommit(p))

\* From<Bytes> for InsertRequest (src/query/insert.rs): the id of the request
\* is 0 and it has no labels
InsertRequest_from(object) ==
    [type |-> "insert", id |-> 0, object |-> object, labels |-> <<>>]

\* InsertRequest::new(object)
InsertRequest_new(object) == InsertRequest_from(object)

\* InsertRequest::new_static_id(id, object): from, then set_id
InsertRequest_new_static_id(id, object) ==
    [InsertRequest_from(object) EXCEPT !.id = id]

\* a Transaction of the one InsertRequest is executed on the Bucket
TInsertBuilt(req, built) ==
    /\ \E r \in {Transaction_execute(BucketStore, <<req>>, NoFault)} :
         /\ SetBucket(r.B)
         /\ last' = [op |-> "t_insert", built |-> built, id |-> req.id,
                     object |-> req.object, ok |-> r.ok]
    /\ UNCHANGED <<labels, labels_inverse, data, data_labels, data_labels_inverse,
                   legacy, handles>>

\* InsertRequest::new(object), execute
TInsertNew(payloads) ==
    /\ \E object \in payloads : TInsertBuilt(InsertRequest_new(object), "new")
    /\ UNCHANGED db

\* InsertRequest::new_static_id(id, object), execute
TInsertStatic(payloads) ==
    /\ \E id \in ObjectIds, object \in payloads :
         TInsertBuilt(InsertRequest_new_static_id(id, object), "static")
    /\ UNCHANGED db

\* InsertRequest::new_monotonic_id(mango, object), execute
TInsertMonotonic(payloads) ==
    /\ Db_next_id(MaxNextId)
    /\ \E object \in payloads :
         TInsertBuilt(InsertRequest_new_static_id(next_id, object), "monotonic")

\* blobs put into the Bucket by requests of the three constructors, and
\* deleted
NextBucketNew ==
    \/ TInsertNew(Payloads)
    \/ TInsertStatic(Payloads)
    \/ TInsertMonotonic(Payloads)
    \/ TTransaction(Unfaulted(Transactions({}, DeleteRequests)))

SpecBucketNew == Init /\ [][NextBucketNew]_vars

\* the names of the five trees of a namespace and of the Bucket
NamespaceTrees(name) == Namespace_open_from_db({}, name)

BucketTreeNames == Bucket_open({}, Testing)

\* C21: after drop_namespace(name) none of the five trees of the namespace
\* is in the database and what they held is gone, the trees of every other
\* namespace are as they were, and a tree that is not in the database holds
\* nothing when it is opened again; the same for the drop of the Bucket
C21_DropRemovesNamespace ==
    [][/\ last'.op = "drop_namespace"
          => /\ NamespaceTrees(last'.name) \cap open_trees' = {}
             /\ open_trees' \ NamespaceTrees(last'.name)
                  = open_trees \ NamespaceTrees(last'.name)
             /\ IF last'.name = Files
                THEN /\ labels' = EmptyTree /\ labels_inverse' = EmptyTree
                     /\ data' = EmptyTree /\ data_labels' = EmptyTree
                     /\ data_labels_inverse' = EmptyTree
                ELSE UNCHANGED <<labels, labels_inverse, data, data_labels,
                                 data_labels_inverse>>
             /\ UNCHANGED bucket
       /\ last'.op = "bucket_drop"
          => /\ BucketTreeNames \cap open_trees' = {}
             /\ open_trees' \ BucketTreeNames = open_trees \ BucketTreeNames
             /\ t_labels' = EmptyTree /\ t_labels_invert' = EmptyTree
             /\ t_objects' = EmptyTree /\ t_objects_labels' = EmptyTree
             /\ t_labels_objects' = EmptyTree
             /\ UNCHANGED <<labels, labels_inverse, data, data_labels,
                            data_labels_inverse>>
       /\ \A n \in DOMAIN Sled'.contents :
             n \notin open_trees' => Sled'.contents[n] = EmptyTree]_vars

\* the namespace files was dropped with blobs and labels in it while the
\* Bucket holds objects and another namespace is open
C21_Witness ==
    /\ last.op = "drop_namespace"
    /\ last.name = Files
    /\ DOMAIN t_objects # {}
    /\ NamespaceTrees("ext") \subseteq open_trees
    /\ data = EmptyTree

\* C22: after drop on the Bucket handle a Transaction executed through it
\* fails with NamespaceClosed and writes nothing
C22_DroppedHandleRefuses ==
    [][(last'.op = "transaction" /\ ~is_ok)
       => /\ ~last'.ok
          /\ last'.error = "NamespaceClosed"
          /\ UNCHANGED bucket]_vars

\* the names of the namespaces of the bincode draft that are in the database
ExistingNamespaces == {name \in Names : Namespace_new({}, name) \subseteq open_trees}

\* C23: list_namespaces returns the sorted, duplicate-free names of the
\* namespaces that exist, the role suffix of their trees stripped
C23_ListIsNamespaceNames ==
    last.op = "list_namespaces"
    => last.result = SortStrs({Utf8[name] : name \in ExistingNamespaces})

\* C24: once execute was called on a request object, every later execute and
\* every later builder call on it returns AlreadyExecuted and changes no tree
C24_RequestsAreOneShot ==
    [][(request.executed /\ last'.op \in {"execute", "add_label", "include",
                                          "include_prefix", "exclude", "add_object"})
       => /\ ~last'.ok
          /\ last'.error = "AlreadyExecuted"
          /\ UNCHANGED <<labels, labels_inverse, data, data_labels,
                         data_labels_inverse>>]_vars

C26_QueryIsSnapshot ==
    last.op = "query_done" => last.results \in last.snapshots

\* C27: the get of an ObjectID that has no entry in the object tree does not
\* fail and returns something else than the get of that ObjectID would
\* return if a blob of zero length were stored under it
C27_AbsentIsNotEmptyBlob ==
    (last.op = "t_get" /\ ~Has(t_objects, SerU64(last.id)))
    => /\ last.ok
       /\ last.results #
            GetRequest_execute(
               TInsertRequest_execute(BucketStore, last.id, <<>>, <<>>),
               <<last.id>>)

\* the label texts whose LabelIDs data_labels holds for the object: the label
\* set of the insert that wrote the entry
InsertedLabels(oid) ==
    {t \in CoreLabels \cup QueryLabels \cup {LabelB} : Label_id(t) \in LabelIdsOf(oid)}

\* C28: get_one of a stored blob returns the bytes it was inserted with and
\* exactly the labels it was inserted with, whatever inserts and deletes of
\* other blobs came in between
C28_GetWithLabels ==
    (last.op = "get" /\ Has(data, SerU64(last.id)))
    => /\ last.res.found
       /\ last.res.bytes = DeBytes(data[SerU64(last.id)])
       /\ Range(last.res.labels) = InsertedLabels(last.id)

\* how often x is in the list
RECURSIVE Count(_, _)
Count(xs, x) ==
    IF xs = <<>> THEN 0
    ELSE (IF Head(xs) = x THEN 1 ELSE 0) + Count(Tail(xs), x)

\* the object is in no list of the label-to-objects tree
InNoList(B, id) ==
    \A k \in DOMAIN B.t_labels_objects : id \notin Range(DeVec(B.t_labels_objects[k]))

\* C29: an insert request that was given the same label more than once
\* writes it once: the label list of the object holds the label once and the
\* object list of the label holds the object once
C29_LabelWrittenOnce ==
    [][(/\ last'.op = "transaction"
        /\ last'.ok
        /\ last'.reqs[1].type = "insert"
        /\ InNoList(BucketStore, last'.reqs[1].id))
       => /\ NoDup(DeStrs(t_objects_labels'[SerU64(last'.reqs[1].id)]))
          /\ \A i \in 1..Len(last'.reqs[1].labels) :
                Count(DeVec(t_labels_objects'[ser_label(last'.reqs[1].labels[i])]),
                      last'.reqs[1].id) = 1]_vars

\* C30: the insert of an ObjectID that is stored already, now with another
\* label set, leaves the object in the data_labels_inverse lists of the new
\* labels only, and a query that includes none of the new labels does not
\* return it
C30_ReinsertLeavesNoStaleLabel ==
    [][/\ (last'.op = "insert" /\ Has(data, SerU64(last'.id)))
            => \A t \in CoreLabels \cup QueryLabels :
                  last'.id \in ObjectIdsOf(Label_id(t))' => t \in last'.labels
       /\ (/\ last.op = "insert"
           /\ last'.op = "query"
           /\ last'.include_prefix = {}
           /\ last'.include \cap last.labels = {})
            => last.id \notin Range(last'.results)]_vars

\* the list holds its elements in strictly ascending order
Ascending(xs) == \A i \in DOMAIN xs : \A j \in DOMAIN xs : i < j => xs[i] < xs[j]

\* C31: the list of ObjectIDs a query returns is sorted in strictly
\* ascending order, for every store and every include, exclude and prefix set
C31_ResultsAscending ==
    /\ last.op = "query" => Ascending(last.results)
    /\ last.op = "legacy_query" => Ascending(last.results)

\* the labels the relations tree holds for a stored blob of the legacy
\* namespace, and the stored blobs that carry all the labels of a list
LegacyLabelsOf(id) ==
    IF Has(blobs_labels, BlobKey(id))
    THEN Range(DeBincodeVecStr(blobs_labels[BlobKey(id)])) ELSE {}

LegacyCarriers(ls) ==
    {id \in 0..MaxNextId : Has(blobs, BlobKey(id)) /\ Range(ls) \subseteq LegacyLabelsOf(id)}

\* C32: for a non-empty label list the legacy Namespace::query returns
\* exactly the ObjectIDs of the stored blobs that carry all the labels
C32_LegacyQueryIsIntersection ==
    (last.op = "legacy_query" /\ last.labels # <<>>)
      => Range(last.results) = LegacyCarriers(last.labels)

\* the objects of the groups of one kind of a FindRequest
FoundUnder(groups, include) ==
    UNION {GroupObjects(BucketStore, groups[i].labels) :
             i \in {j \in DOMAIN groups : groups[j].include = include}}

\* C33: the result of a FindRequest does not depend on the order in which
\* the groups were added: it holds the objects of the include groups less
\* the objects of the exclude groups
C33_FindIgnoresGroupOrder ==
    last.op = "t_find" =>
        {r[1] : r \in last.results}
          = FoundUnder(last.groups, TRUE) \ FoundUnder(last.groups, FALSE)

\* C34: a Transaction is one-shot: after execute returned successfully
\* completed() is true, and the next execute() or append_request() on it
\* returns AlreadyExecuted and leaves the trees of the Bucket as they are
C34_TransactionIsOneShot ==
    [][/\ (last'.op = "tx_execute" /\ last'.ok) => request'.completed
       /\ (/\ last.op = "tx_execute" /\ last.ok
           /\ last'.op \in {"tx_execute", "tx_append"})
          => (last'.error = "AlreadyExecuted" /\ bucket' = bucket)]_vars

\* the ids of the entries a GetRequest returned
GotIds(entries) == {entries[i][1] : i \in DOMAIN entries}

\* C35: conflict retries are transparent: when the closure of a transaction
\* ran again after a conflict, the trees and the results are those of one run
\* without a conflict, the results hold one result per request, and the
\* result of a GetRequest holds an entry for every id of the request
C35_RetriesAreTransparent ==
    (last.op = "tx_execute" /\ last.ok) =>
        /\ BucketStore = Transaction_execute_object(last.store, last.tx, 1, NoFault).B
        /\ request.results
             = Transaction_execute_object(last.store, last.tx, 1, NoFault).tx.results
        /\ Len(request.results) = Len(last.tx.reqs)
        /\ \A n \in DOMAIN last.tx.reqs :
              last.tx.reqs[n].type = "get"
                => GotIds(request.results[n]) = Range(last.tx.reqs[n].ids)

\* every writer has returned
AllReturned ==
    /\ last.op = "returned"
    /\ race.pending = {}

\* two of the writers inserted different objects under the same label
InsertedTogether(p, q) ==
    /\ race.writers[p].kind = "insert" /\ race.writers[q].kind = "insert"
    /\ race.writers[p].oid # race.writers[q].oid
    /\ race.writers[p].label = race.writers[q].label

\* no writer deleted anything
OnlyInserts == \A p \in Writers : race.writers[p].kind = "insert"

DataKeysPaired == DOMAIN data = DOMAIN data_labels

\* C37: after every committed insert or delete data and data_labels have
\* the same key set, and in the legacy namespace a blob is stored exactly
\* when the relations tree holds an entry for it
C37_KeySetsPaired ==
    /\ DataKeysPaired
    /\ DOMAIN blobs = DOMAIN blobs_labels

\* the Bucket holds a blob under the ObjectID, and what a GetRequest of the
\* ObjectID returns
TStored(id) == Has(t_objects, SerU64(id))

TGot(id) == GetRequest_execute(BucketStore, <<id>>)

\* the last step was a transaction with a DeleteRequest that names the
\* ObjectID, or an insert for which the caller supplied the ObjectID
TDeleteNamed(id) ==
    IF last.op = "transaction"
    THEN \E n \in DOMAIN last.reqs :
            last.reqs[n].type = "delete" /\ id \in Range(last.reqs[n].ids)
    ELSE FALSE

TInsertNamed(id) ==
    IF last.op = "t_insert" THEN last.built = "static" /\ last.id = id ELSE FALSE

\* C38: a stored blob stays retrievable under its ObjectID with the same
\* bytes until a delete that names the ObjectID commits; an insert built
\* without a caller-supplied id never takes the ObjectID of another blob
C38_BlobStaysUntilDeleted ==
    [][\A id \in 0..MaxNextId :
          (TStored(id) /\ ~TDeleteNamed(id)' /\ ~TInsertNamed(id)')
             => TGot(id)' = TGot(id)]_vars

\* execute of writer p has returned
Returned(p) ==
    IF "writers" \in DOMAIN race THEN race.writers[p].pc = "done" ELSE FALSE

====
